---- MODULE Spec2Model ----
(***************************************************************************)
(* A model of the json-render code generators and of the dashboard        *)
(* example's database bridge.                                              *)
(*                                                                         *)
(*   packages/codegen/src/selector-generator.ts  (derived-state compiler)  *)
(*   packages/core/src/table-schema.ts           (table compiler)          *)
(*   unnamed/part_008, lines 1-329               (collection compiler)     *)
(*   unnamed/part_008, lines 331-695             (slice compiler)          *)
(*   unnamed/part_002, lines 133-245             (service worker)          *)
(*   examples/dashboard/db/request-handler.ts    (bridge, pglite singleton)*)
(*                                                                         *)
(* Text is modelled by its structure.  A JavaScript string that the code   *)
(* builds by concatenation is a sequence of chunks ("select" \o "A"), so   *)
(* that name.replace(/^select/, "") is computed and not assumed.  Emitted  *)
(* source text is a record per template of the generator: one record kind  *)
(* per template literal, holding the values spliced into it.               *)
(* An optional field (x?: T) is a sequence: <<>> when absent, <<v>> when   *)
(* present; unique's field?: string, which the code only tests for         *)
(* truthiness, is "" when absent.  The description of a descriptor only    *)
(* reaches a comment of the emitted text and is left out.                  *)
(***************************************************************************)
EXTENDS Integers, Sequences, FiniteSets, TLC

\* ------------------------------------------------------------------ bounds

\* Longest inputs list of a selector handed to generateCrossSourceSelectorCode.
MaxInputs == 2
\* Longest pipeline of such a selector.
MaxPipe == 1
\* Largest batch handed to generateSelectorFiles.
MaxBatch == 3
\* Longest columns list of a table descriptor.
MaxCols == 2
\* Longest array an emitted body is run on.
MaxLen == 3
\* Longest pipeline of a selector whose emitted body is run.
MaxRunPipe == 2
\* Longest initialState list of a slice handed to generateSliceCode.
MaxFields == 2
\* Longest collections list handed to generateTanStackDBFiles.
MaxCollections == 2
\* Longest mutations list handed to it.
MaxMutations == 1
\* How many requests the page fetches while the service worker runs.
MaxRequests == 2
\* How many callers of initDatabase / getDatabase there are.
MaxCallers == 3
\* Longest where list of a live query.
MaxWhere == 2

\* ----------------------------------------------------------------- helpers

None == <<>>
Some(v) == <<v>>
IsSome(o) == Len(o) > 0
Get(o) == o[1]

Range(s) == {s[i] : i \in DOMAIN s}

SeqsUpTo(S, n) == UNION {[1..k -> S] : k \in 0..n}

\* The elements of s in order of first occurrence: the iteration order of
\* new Set(s), and of the keys of new Map(pairs).
FirstOccurrences(s) ==
  LET F[i \in 0..Len(s)] ==
        IF i = 0 THEN <<>>
        ELSE IF s[i] \in Range(F[i - 1]) THEN F[i - 1] ELSE Append(F[i - 1], s[i])
  IN F[Len(s)]

\* name.replace(/^select/, "")
StripSelect(name) ==
  IF Len(name) > 0 /\ name[1] = "select" THEN Tail(name) ELSE name

\* `use${name.replace(/^select/, "")}`
HookNameOf(name) == <<"use">> \o StripSelect(name)

\* ------------------------------------------------- selector-generator.ts

Ident(name) == [t |-> "ident", name |-> name]
ItemField(field) == [t |-> "member", obj |-> "item", field |-> field]

operatorToJS(op) ==
  LET map == [eq |-> "===", neq |-> "!==", gt |-> ">", gte |-> ">=",
              lt |-> "<", lte |-> "<=", in |-> "", contains |-> ""]
  IN IF op \in DOMAIN map /\ map[op] # "" THEN map[op] ELSE "==="

generateFilterExpression(predicate) ==
  LET valueExpr == IF IsSome(predicate.valueFrom)
                   THEN Ident(Get(predicate.valueFrom).selector)
                   ELSE [t |-> "json", value |-> predicate.value]
  IN IF predicate.operator = "in"
     THEN [t |-> "includes", container |-> valueExpr, elem |-> ItemField(predicate.field)]
     ELSE IF predicate.operator = "contains"
     THEN [t |-> "includes", container |-> ItemField(predicate.field), elem |-> valueExpr]
     ELSE [t |-> "binop", left |-> ItemField(predicate.field),
           op |-> operatorToJS(predicate.operator), right |-> valueExpr]

\* A field mapping is a plain string (kind "keep"), a rename or a computed
\* field; the text returned for it, "" when nothing matches.
generateComputedField(field) ==
  IF field.kind = "keep" THEN [t |-> "shorthand", name |-> field.name]
  ELSE IF field.kind = "rename"
  THEN [t |-> "prop", name |-> field.to, compute |-> "copy", args |-> <<field.from>>]
  ELSE IF field.kind = "compute"
  THEN IF field.compute \in {"concat", "sum", "multiply"}
       THEN [t |-> "prop", name |-> field.name, compute |-> field.compute, args |-> field.args]
       ELSE IF field.compute = "format"
       THEN [t |-> "prop", name |-> field.name, compute |-> "String", args |-> <<field.args[1]>>]
       ELSE [t |-> "prop", name |-> field.name, compute |-> "copy", args |-> <<field.args[1]>>]
  ELSE [t |-> "empty"]

\* sort without the spread: `${input}.sort(...)`.
applyTransformationSortInPlace(input, op) ==
  IF op.op = "filter"
  THEN [t |-> "filter", src |-> input, test |-> generateFilterExpression(op.predicate)]
  ELSE IF op.op = "map"
  THEN [t |-> "map", src |-> input,
        fields |-> SelectSeq([i \in DOMAIN op.fields |-> generateComputedField(op.fields[i])],
                             LAMBDA f : f.t # "empty")]
  ELSE IF op.op = "sort"
  THEN LET dir == IF op.direction = "desc" THEN -1 ELSE 1
       IN [t |-> "sort", src |-> input, field |-> op.field,
           whenGreater |-> dir, otherwise |-> -dir]
  ELSE IF op.op = "slice"
  THEN [t |-> "slice", src |-> input,
        start |-> IF IsSome(op.start) THEN Get(op.start) ELSE 0,
        end |-> IF IsSome(op.end) /\ Get(op.end) # 0 THEN op.end ELSE None]
  ELSE IF op.op = "groupBy"
  THEN [t |-> "groupBy", src |-> input, field |-> op.field]
  ELSE IF op.op = "unique"
  THEN IF op.field # ""
       THEN [t |-> "uniqueMap", src |-> input, field |-> op.field]
       ELSE [t |-> "uniqueSet", src |-> input]
  ELSE input

applyTransformation(input, op) ==
  IF op.op = "filter"
  THEN [t |-> "filter", src |-> input, test |-> generateFilterExpression(op.predicate)]
  ELSE IF op.op = "map"
  THEN [t |-> "map", src |-> input,
        fields |-> SelectSeq([i \in DOMAIN op.fields |-> generateComputedField(op.fields[i])],
                             LAMBDA f : f.t # "empty")]
  ELSE IF op.op = "sort"
  THEN LET dir == IF op.direction = "desc" THEN -1 ELSE 1
       IN [t |-> "sortCopy", src |-> input, field |-> op.field,
           whenGreater |-> dir, otherwise |-> -dir]
  ELSE IF op.op = "slice"
  THEN [t |-> "slice", src |-> input,
        start |-> IF IsSome(op.start) THEN Get(op.start) ELSE 0,
        end |-> IF IsSome(op.end) /\ Get(op.end) # 0 THEN op.end ELSE None]
  ELSE IF op.op = "groupBy"
  THEN [t |-> "groupBy", src |-> input, field |-> op.field]
  ELSE IF op.op = "unique"
  THEN IF op.field # ""
       THEN [t |-> "uniqueMap", src |-> input, field |-> op.field]
       ELSE [t |-> "uniqueSet", src |-> input]
  ELSE input

\* `${input}.reduce((acc, item) => acc + (item.${field} ?? 0), 0)`
SumOf(input, field) == [t |-> "sum", src |-> input, field |-> field]
\* `${input}.length`
LengthOf(input) == [t |-> "length", src |-> input]

\* avg without its zero guard.
avgExpressionUnguarded(input, field) ==
  [t |-> "div", num |-> SumOf(input, field), den |-> LengthOf(input)]

\* `${input}.length > 0 ? ${input}.reduce(...) / ${input}.length : 0`
avgExpression(input, field) ==
  [t |-> "cond",
   test |-> [t |-> "gt", left |-> LengthOf(input), right |-> 0],
   yes |-> [t |-> "div", num |-> SumOf(input, field), den |-> LengthOf(input)],
   no |-> [t |-> "number", v |-> 0]]

applyAggregation(input, agg) ==
  IF agg.type = "count" THEN LengthOf(input)
  ELSE IF agg.type = "sum" THEN SumOf(input, agg.field)
  ELSE IF agg.type = "avg" THEN avgExpression(input, agg.field)
  ELSE IF agg.type = "min" THEN [t |-> "min", src |-> input, field |-> agg.field]
  ELSE IF agg.type = "max" THEN [t |-> "max", src |-> input, field |-> agg.field]
  ELSE IF agg.type = "first" THEN [t |-> "first", src |-> input]
  ELSE IF agg.type = "last" THEN [t |-> "last", src |-> input]
  ELSE IF agg.type = "reduce"
  THEN [t |-> "reduce", src |-> input, reducer |-> agg.reducer, initial |-> agg.initial]
  ELSE input

applyOutputTransform(input, output) ==
  IF output.type = "array" THEN [t |-> "return", expr |-> input]
  ELSE IF output.type = "single"
  THEN [t |-> "return", expr |-> [t |-> "first", src |-> input]]
  ELSE IF output.type = "aggregation"
  THEN [t |-> "return", expr |-> applyAggregation(input, output.aggregation)]
  ELSE IF output.type = "object"
  THEN [t |-> "returnObject",
        fields |-> [i \in DOMAIN output.fields |->
                      [key |-> output.fields[i].key,
                       expr |-> applyAggregation(input, output.fields[i].agg)]]]
  ELSE [t |-> "return", expr |-> input]

generateInputHook(input) ==
  IF input.source.type = "slice"
  THEN [bound |-> input.name, call |-> "useAppSelector",
        slice |-> input.source.slice, path |-> input.source.path]
  ELSE IF input.source.type = "collection"
  THEN IF IsSome(input.source.query) /\ Get(input.source.query) # ""
       THEN [bound |-> input.name, call |-> "useLiveQuery",
             collection |-> input.source.collection, query |-> input.source.query]
       ELSE [bound |-> input.name, call |-> "useLiveQuery",
             collection |-> input.source.collection, query |-> None]
  ELSE IF input.source.type = "selector"
  THEN [bound |-> input.name, call |-> "hook", hook |-> HookNameOf(input.source.selector)]
  ELSE [bound |-> input.name, call |-> "null"]

generateSelectorImports(inputs) ==
  LET collections == FirstOccurrences(
        [i \in DOMAIN SelectSeq(inputs, LAMBDA x : x.source.type = "collection") |->
           SelectSeq(inputs, LAMBDA x : x.source.type = "collection")[i].source.collection])
      selectors == FirstOccurrences(
        [i \in DOMAIN SelectSeq(inputs, LAMBDA x : x.source.type = "selector") |->
           SelectSeq(inputs, LAMBDA x : x.source.type = "selector")[i].source.selector])
      collectionLines == [i \in DOMAIN collections |->
           [names |-> <<<<collections[i], "Collection">>>>,
            from |-> <<"../db/collections/", collections[i], "Collection">>]]
      hooks == [i \in DOMAIN selectors |-> HookNameOf(selectors[i])]
  IN collectionLines \o
     (IF Len(selectors) > 0 THEN <<[names |-> hooks, from |-> <<"./index">>]>> ELSE <<>>)

RECURSIVE ApplyPipeline(_, _)
ApplyPipeline(result, pipeline) ==
  IF pipeline = <<>> THEN result
  ELSE ApplyPipeline(applyTransformation(result, Head(pipeline)), Tail(pipeline))

\* pipeline?: an absent pipeline and an empty one both leave the result alone.
generateSelectorBody(inputs, pipeline, output) ==
  LET result == IF Len(inputs) > 0 THEN Ident(inputs[1].name) ELSE Ident(<<"data">>)
  IN applyOutputTransform(ApplyPipeline(result, pipeline), output)

\* some() where the code has every().
hasOnlySliceSourcesSome(inputs) ==
  \E i \in DOMAIN inputs : inputs[i].source.type = "slice"

hasOnlySliceSources(inputs) ==
  \A i \in DOMAIN inputs : inputs[i].source.type = "slice"

\* A non-slice source read as { slice, path } has neither field.
generateRTKSelector(sel) ==
  [form |-> "createSelector",
   exported |-> sel.name,
   inputSelectors |-> [i \in DOMAIN sel.inputs |->
       IF sel.inputs[i].source.type = "slice"
       THEN [slice |-> sel.inputs[i].source.slice, path |-> sel.inputs[i].source.path]
       ELSE [slice |-> "undefined", path |-> "undefined"]],
   params |-> [i \in DOMAIN sel.inputs |-> sel.inputs[i].name],
   body |-> generateSelectorBody(sel.inputs, sel.pipeline, sel.output)]

\* The dependency list built from a Set of the input names.
generateHookSelectorDistinctDeps(sel) ==
  [form |-> "hook",
   exported |-> HookNameOf(sel.name),
   inputHooks |-> [i \in DOMAIN sel.inputs |-> generateInputHook(sel.inputs[i])],
   deps |-> FirstOccurrences([i \in DOMAIN sel.inputs |-> sel.inputs[i].name]),
   body |-> generateSelectorBody(sel.inputs, sel.pipeline, sel.output)]

generateHookSelector(sel) ==
  [form |-> "hook",
   exported |-> HookNameOf(sel.name),
   inputHooks |-> [i \in DOMAIN sel.inputs |-> generateInputHook(sel.inputs[i])],
   deps |-> [i \in DOMAIN sel.inputs |-> sel.inputs[i].name],
   body |-> generateSelectorBody(sel.inputs, sel.pipeline, sel.output)]

\* memoize?.enabled !== false: true unless memoize is given with enabled false.
memoizeEnabled(memoize) ==
  ~(IsSome(memoize) /\ "enabled" \in DOMAIN Get(memoize) /\ Get(memoize).enabled = FALSE)

\* The pure form dropping createSelector when memoization is switched off.
generateCrossSourceSelectorCodeUsingMemoized(sel) ==
  LET memoized == memoizeEnabled(sel.memoize)
  IN IF hasOnlySliceSources(sel.inputs)
     THEN [imports |-> generateSelectorImports(sel.inputs),
           lib |-> IF memoized THEN <<"createSelector", "RootState">> ELSE <<"RootState">>,
           decl |-> generateRTKSelector(sel)]
     ELSE [imports |-> generateSelectorImports(sel.inputs),
           lib |-> IF memoized THEN <<"useLiveQuery", "useMemo", "useAppSelector">>
                   ELSE <<"useLiveQuery", "useAppSelector">>,
           decl |-> generateHookSelector(sel)]

\* `memoized` is computed and then never read.
generateCrossSourceSelectorCode(sel) ==
  LET memoized == memoizeEnabled(sel.memoize)
  IN IF hasOnlySliceSources(sel.inputs)
     THEN [imports |-> generateSelectorImports(sel.inputs),
           lib |-> <<"createSelector", "RootState">>,
           decl |-> generateRTKSelector(sel)]
     ELSE [imports |-> generateSelectorImports(sel.inputs),
           lib |-> <<"useLiveQuery", "useMemo", "useAppSelector">>,
           decl |-> generateHookSelector(sel)]

\* The index exporting every selector under its own name.
generateSelectorsIndexCodeByName(selectors) ==
  [exports |-> [i \in DOMAIN selectors |->
      [ident |-> selectors[i].name, from |-> <<"./">> \o selectors[i].name]]]

generateSelectorsIndexCode(selectors) ==
  [exports |-> [i \in DOMAIN selectors |->
      IF hasOnlySliceSources(selectors[i].inputs)
      THEN [ident |-> selectors[i].name, from |-> <<"./">> \o selectors[i].name]
      ELSE [ident |-> HookNameOf(selectors[i].name), from |-> <<"./">> \o selectors[i].name]]]

\* A Record<string, string> keeps its keys in the order of their first
\* assignment; assigning an existing key replaces its value in place.
Keys(rec) == [i \in DOMAIN rec |-> rec[i].key]
HasKey(rec, k) == \E i \in DOMAIN rec : rec[i].key = k
Lookup(rec, k) == rec[CHOOSE i \in DOMAIN rec : rec[i].key = k].value
Put(rec, k, v) ==
  IF HasKey(rec, k)
  THEN [i \in DOMAIN rec |-> IF rec[i].key = k THEN [key |-> k, value |-> v] ELSE rec[i]]
  ELSE Append(rec, [key |-> k, value |-> v])

SelectorPath(name) == <<"selectors/">> \o name \o <<".ts">>
IndexPath == <<"selectors/", "index", ".ts">>

generateSelectorFiles(selectors) ==
  LET F[i \in 0..Len(selectors)] ==
        IF i = 0 THEN <<>>
        ELSE Put(F[i - 1], SelectorPath(selectors[i].name),
                 generateCrossSourceSelectorCode(selectors[i]))
  IN Put(F[Len(selectors)], IndexPath, generateSelectorsIndexCode(selectors))

\* ------------------------------------------------------- table-schema.ts

\* Emitted type text is a sequence of chunks in which every parenthesis is
\* a chunk of its own, so that String.prototype.replace with a string
\* pattern (first occurrence only) is computed.  Numbers spliced into text
\* are their decimal strings.

\* text.replace("()", with): the first "(" directly followed by ")".
ReplaceFirstCall(text, with) ==
  LET hits == {i \in 1..(Len(text) - 1) : text[i] = "(" /\ text[i + 1] = ")"}
  IN IF hits = {} THEN text
     ELSE LET i == CHOOSE h \in hits : \A g \in hits : h <= g
          IN SubSeq(text, 1, i - 1) \o with \o SubSeq(text, i + 2, Len(text))

\* text.replace(")", with): the first ")".
ReplaceFirstClose(text, with) ==
  LET hits == {i \in 1..Len(text) : text[i] = ")"}
  IN IF hits = {} THEN text
     ELSE LET i == CHOOSE h \in hits : \A g \in hits : h <= g
          IN SubSeq(text, 1, i - 1) \o with \o SubSeq(text, i + 1, Len(text))

mapFieldTypeToZod(type) ==
  LET map == [string |-> <<"z.string", "(", ")">>,
              number |-> <<"z.number", "(", ")">>,
              boolean |-> <<"z.boolean", "(", ")">>,
              date |-> <<"z.coerce.date", "(", ")">>,
              datetime |-> <<"z.coerce.date", "(", ")">>,
              json |-> <<"z.unknown", "(", ")">>,
              uuid |-> <<"z.string", "(", ")", ".uuid", "(", ")">>]
  IN IF type \in DOMAIN map THEN map[type] ELSE <<"z.unknown", "(", ")">>

mapFieldTypeToTS(type) ==
  LET map == [string |-> "string", number |-> "number", boolean |-> "boolean",
              date |-> "Date", datetime |-> "Date", json |-> "unknown", uuid |-> "string"]
  IN IF type \in DOMAIN map THEN map[type] ELSE "unknown"

sqlTypeMap ==
  [string |-> "TEXT", number |-> "REAL", boolean |-> "INTEGER", date |-> "TEXT",
   datetime |-> "TEXT", json |-> "TEXT", uuid |-> "TEXT"]

\* The zod type of one column: the base type, the constraints applied to it
\* in the code's order, then .nullable().
zodColumnType(col) ==
  LET base == mapFieldTypeToZod(col.type)
      c == Get(col.constraints)
      s1 == IF col.type = "string" /\ IsSome(c.minLength)
            THEN ReplaceFirstCall(base, <<"(", ")", ".min", "(", Get(c.minLength), ")">>)
            ELSE base
      s2 == IF col.type = "string" /\ IsSome(c.maxLength)
            THEN ReplaceFirstClose(s1, <<".max", "(", Get(c.maxLength), ")", ")">>)
            ELSE s1
      s3 == IF col.type = "string" /\ IsSome(c.pattern)
            THEN ReplaceFirstClose(s2, <<".regex", "(", Get(c.pattern), ")", ")">>)
            ELSE s2
      n1 == IF col.type = "number" /\ IsSome(c.min)
            THEN ReplaceFirstCall(s3, <<"(", ")", ".min", "(", Get(c.min), ")">>)
            ELSE s3
      n2 == IF col.type = "number" /\ IsSome(c.max)
            THEN ReplaceFirstClose(n1, <<".max", "(", Get(c.max), ")", ")">>)
            ELSE n1
      e == IF IsSome(c.enum) /\ Len(Get(c.enum)) > 0
           THEN <<"z.enum", "(", "[">> \o Get(c.enum) \o <<"]", ")">>
           ELSE n2
      constrained == IF IsSome(col.constraints) THEN e ELSE base
  IN IF col.nullable THEN constrained \o <<".nullable", "(", ")">> ELSE constrained

hasPrimaryKey(table) ==
  \E i \in DOMAIN table.columns : table.columns[i].name = table.primaryKey

\* "Add primary key if not in columns" of tableToZodSchema and
\* tableToTypeScript: fields.unshift(...).
\* push() where the code has unshift().
unshiftPrimaryKeyAtEnd(fields, table, type) ==
  IF ~hasPrimaryKey(table)
  THEN Append(fields, [name |-> table.primaryKey, type |-> type])
  ELSE fields

\* unshift() without the test of hasPrimaryKey.
unshiftPrimaryKeyAlways(fields, table, type) ==
  <<[name |-> table.primaryKey, type |-> type]>> \o fields

unshiftPrimaryKey(fields, table, type) ==
  IF ~hasPrimaryKey(table)
  THEN <<[name |-> table.primaryKey, type |-> type]>> \o fields
  ELSE fields

tableToZodSchema(table) ==
  LET cols == [i \in DOMAIN table.columns |->
                 [name |-> table.columns[i].name, type |-> zodColumnType(table.columns[i])]]
      withKey == unshiftPrimaryKey(cols, table, <<"z.string", "(", ")", ".uuid", "(", ")">>)
      withStamps == IF table.timestamps
                    THEN withKey \o <<[name |-> "createdAt", type |-> <<"z.coerce.date", "(", ")">>],
                                      [name |-> "updatedAt", type |-> <<"z.coerce.date", "(", ")">>]>>
                    ELSE withKey
      fields == IF table.softDelete
                THEN Append(withStamps,
                       [name |-> "deletedAt",
                        type |-> <<"z.coerce.date", "(", ")", ".nullable", "(", ")">>])
                ELSE withStamps
  IN [schema |-> <<table.name, "Schema">>,
      fields |-> fields,
      createOmit |-> <<table.primaryKey>> \o
                     (IF table.timestamps THEN <<"createdAt", "updatedAt">> ELSE <<>>) \o
                     (IF table.softDelete THEN <<"deletedAt">> ELSE <<>>),
      updateRequired |-> <<table.primaryKey>>]

tableToTypeScript(table) ==
  LET cols == [i \in DOMAIN table.columns |->
                 [name |-> table.columns[i].name,
                  type |-> <<mapFieldTypeToTS(table.columns[i].type)>> \o
                           (IF table.columns[i].nullable THEN <<" | null">> ELSE <<>>)]]
      withKey == unshiftPrimaryKey(cols, table, <<"string">>)
      withStamps == IF table.timestamps
                    THEN withKey \o <<[name |-> "createdAt", type |-> <<"Date">>],
                                      [name |-> "updatedAt", type |-> <<"Date">>]>>
                    ELSE withKey
      fields == IF table.softDelete
                THEN Append(withStamps, [name |-> "deletedAt", type |-> <<"Date", " | null">>])
                ELSE withStamps
  IN [interface |-> table.name, fields |-> fields]

\* name.toLowerCase() of the table names used here.
toLowerCase(name) ==
  IF name = "Order" THEN "order" ELSE IF name = "User" THEN "user" ELSE name

tableToSQL(table) ==
  LET key == IF ~hasPrimaryKey(table)
             THEN <<[name |-> table.primaryKey, def |-> <<"TEXT", " PRIMARY KEY">>]>>
             ELSE <<>>
      cols == [i \in DOMAIN table.columns |->
                 LET col == table.columns[i]
                 IN [name |-> col.name,
                     def |-> <<sqlTypeMap[col.type]>> \o
                             (IF col.name = table.primaryKey THEN <<" PRIMARY KEY">> ELSE <<>>) \o
                             (IF ~col.nullable THEN <<" NOT NULL">> ELSE <<>>) \o
                             (IF IsSome(col.default) THEN <<" DEFAULT ", Get(col.default)>> ELSE <<>>)]]
      stamps == IF table.timestamps
                THEN <<[name |-> "createdAt", def |-> <<"TEXT", " NOT NULL", " DEFAULT (datetime('now'))">>],
                       [name |-> "updatedAt", def |-> <<"TEXT", " NOT NULL", " DEFAULT (datetime('now'))">>]>>
                ELSE <<>>
      soft == IF table.softDelete THEN <<[name |-> "deletedAt", def |-> <<"TEXT">>]>> ELSE <<>>
      indexes == IF IsSome(table.indexes) THEN Get(table.indexes) ELSE <<>>
  IN [table |-> <<toLowerCase(table.name), "s">>,
      columns |-> key \o cols \o stamps \o soft,
      indexes |-> [i \in DOMAIN indexes |->
                     [name |-> indexes[i].name, unique |-> indexes[i].unique,
                      on |-> <<toLowerCase(table.name), "s">>, columns |-> indexes[i].columns]]]

\* ------------------------------------- the emitted code, when it is run

\* JavaScript values.  An item is an object of the heap: ref is its
\* identity, and its fields hold a number or are missing (None).  A result
\* is an array of items, a number, a quotient of two numbers (sum / length,
\* never rounded), or null.
Arr(items) == [t |-> "array", items |-> items]
Num(n) == [t |-> "number", v |-> n]
Quot(n, d) == [t |-> "quotient", num |-> n, den |-> d]
Null == [t |-> "null"]

\* JSON text of the literals used here, read back as a field value.
ParseJson(text) ==
  IF text = "0" THEN Some(0) ELSE IF text = "1" THEN Some(1)
  ELSE IF text = "2" THEN Some(2) ELSE None

\* a > b and its kin on field values: every comparison with a missing
\* value (undefined) is false.
JsCompare(op, a, b) ==
  IF op = "===" THEN a = b
  ELSE IF op = "!==" THEN a # b
  ELSE IF ~IsSome(a) \/ ~IsSome(b) THEN FALSE
  ELSE IF op = ">" THEN Get(a) > Get(b)
  ELSE IF op = ">=" THEN Get(a) >= Get(b)
  ELSE IF op = "<" THEN Get(a) < Get(b)
  ELSE Get(a) <= Get(b)

\* item => item.<field> <op> <literal>
EvalTest(test, item) ==
  JsCompare(test.op, item[test.left.field], ParseJson(test.right.value))

\* (a, b) => (a.f > b.f ? whenGreater : otherwise)
Comparator(node, a, b) ==
  IF JsCompare(">", a[node.field], b[node.field]) THEN node.whenGreater ELSE node.otherwise

IndexPermutations(n) == {p \in [1..n -> 1..n] : \A i, j \in 1..n : p[i] = p[j] => i = j}

\* [...v].sort(comparator).  The comparator never returns 0, so it is not a
\* consistent comparator and the order Array.prototype.sort leaves is
\* implementation-defined.  Every engine sorts by comparing: the outcomes
\* are the orders in which no two neighbours are ones the comparator puts
\* the other way round whichever way it is asked.
SortOutcomes(node, v) ==
  { [i \in 1..Len(v) |-> v[p[i]]] : p \in
      { q \in IndexPermutations(Len(v)) :
          \A i \in 1..(Len(v) - 1) :
            \/ Comparator(node, v[q[i]], v[q[i + 1]]) <= 0
            \/ Comparator(node, v[q[i + 1]], v[q[i]]) >= 0 } }

\* v.slice(start, end): negative bounds count from the end.
JsSlice(v, start, end) ==
  LET clamp(i) == IF i < 0 THEN (IF Len(v) + i < 0 THEN 0 ELSE Len(v) + i)
                  ELSE (IF i > Len(v) THEN Len(v) ELSE i)
      from == clamp(start)
      to == IF IsSome(end) THEN clamp(Get(end)) ELSE Len(v)
  IN SubSeq(v, from + 1, to)

\* [...new Map(v.map(item => [item.f, item])).values()]: the keys in order
\* of first insertion, each with the value set last.
\* The same with the values listed last key first.
UniqueByMapReversed(v, field) ==
  LET keys == FirstOccurrences([i \in DOMAIN v |-> v[i][field]])
  IN [k \in DOMAIN keys |->
        v[CHOOSE i \in DOMAIN v :
            /\ v[i][field] = keys[Len(keys) + 1 - k]
            /\ \A j \in DOMAIN v : v[j][field] = keys[Len(keys) + 1 - k] => j <= i]]

\* Each key with the value set first.
UniqueByMapFirstWins(v, field) ==
  LET keys == FirstOccurrences([i \in DOMAIN v |-> v[i][field]])
  IN [k \in DOMAIN keys |->
        v[CHOOSE i \in DOMAIN v :
            /\ v[i][field] = keys[k]
            /\ \A j \in DOMAIN v : v[j][field] = keys[k] => i <= j]]

UniqueByMap(v, field) ==
  LET keys == FirstOccurrences([i \in DOMAIN v |-> v[i][field]])
  IN [k \in DOMAIN keys |->
        v[CHOOSE i \in DOMAIN v :
            /\ v[i][field] = keys[k]
            /\ \A j \in DOMAIN v : v[j][field] = keys[k] => j <= i]]

\* The arrays one emitted transform can evaluate to, given the array its
\* source evaluated to.
EvalTransform(node, v) ==
  CASE node.t = "filter" -> {SelectSeq(v, LAMBDA item : EvalTest(node.test, item))}
    [] node.t = "sortCopy" -> SortOutcomes(node, v)
    [] node.t = "sort" -> SortOutcomes(node, v)
    [] node.t = "slice" -> {JsSlice(v, node.start, node.end)}
    [] node.t = "uniqueMap" -> {UniqueByMap(v, node.field)}
    [] node.t = "uniqueSet" -> {FirstOccurrences(v)}

\* Whether evaluating the transform returns the very array it was given.
\* Array.prototype.sort sorts its receiver in place and returns it; filter,
\* slice, Array.from and the spread [...v] build a new array.
ReturnsReceiver(node) == node.t = "sort"

\* The arrays held after one more transform has been evaluated to out:
\* nodes[k] took held[k] and gave held[k + 1], so held[j] is the array the
\* last transform was given exactly when every transform from the j-th on
\* returned its receiver; a transform that works in place changes all of
\* those.
HeldAfter(nodes, held, out) ==
  LET n == Len(held)
      sameArray(j) == \A k \in j..(n - 1) : ReturnsReceiver(nodes[k])
  IN Append([j \in 1..n |->
               IF ReturnsReceiver(nodes[n]) /\ sameArray(j) THEN out ELSE held[j]],
            out)

\* acc + (item.f ?? 0), from 0
RECURSIVE SumField(_, _)
SumField(v, field) ==
  IF v = <<>> THEN 0
  ELSE (IF IsSome(Head(v)[field]) THEN Get(Head(v)[field]) ELSE 0) + SumField(Tail(v), field)

\* The value of an emitted expression in which the pipeline expression
\* pexpr has evaluated to the array v.
RECURSIVE EvalExpr(_, _, _)
EvalExpr(expr, pexpr, v) ==
  IF expr = pexpr THEN Arr(v)
  ELSE CASE expr.t = "length" -> Num(Len(EvalExpr(expr.src, pexpr, v).items))
         [] expr.t = "sum" -> Num(SumField(EvalExpr(expr.src, pexpr, v).items, expr.field))
         [] expr.t = "number" -> Num(expr.v)
         [] expr.t = "div" ->
              Quot(EvalExpr(expr.num, pexpr, v).v, EvalExpr(expr.den, pexpr, v).v)
         [] expr.t = "cond" ->
              IF EvalExpr(expr.test.left, pexpr, v).v > expr.test.right
              THEN EvalExpr(expr.yes, pexpr, v)
              ELSE EvalExpr(expr.no, pexpr, v)
         [] expr.t = "first" ->
              LET a == EvalExpr(expr.src, pexpr, v).items
              IN IF Len(a) > 0 THEN [t |-> "item", item |-> a[1]] ELSE Null

\* return <expr>;  and  return { key: <expr>, ... };
EvalBody(body, pexpr, v) ==
  IF body.t = "returnObject"
  THEN [t |-> "object",
        fields |-> [i \in DOMAIN body.fields |->
                      [key |-> body.fields[i].key,
                       value |-> EvalExpr(body.fields[i].expr, pexpr, v)]]]
  ELSE EvalExpr(body.expr, pexpr, v)

\* The transforms of a pipeline expression, innermost (applied first) first.
RECURSIVE TransformNodes(_)
TransformNodes(expr) ==
  IF expr.t = "ident" THEN <<>> ELSE Append(TransformNodes(expr.src), expr)

\* ---------------------------------------------------------------- state

VARIABLES
  selector,   \* the descriptor handed to generateCrossSourceSelectorCode
  code,       \* None, or Some(the text it returned)
  batch,      \* the descriptors handed to generateSelectorFiles
  files,      \* None, or Some(the file map it returned)
  table,      \* the table descriptor handed to the table compiler
  zodText,    \* None, or Some(what tableToZodSchema returned)
  tsText,     \* None, or Some(what tableToTypeScript returned)
  sqlText,    \* None, or Some(what tableToSQL returned)
  run,        \* None, or Some(the descriptor whose emitted body is being run)
  data,       \* the array the first input is bound to while it runs
  vals,       \* vals[k + 1]: what the first k emitted transforms evaluated to
  result,     \* None, or Some(the value the emitted body returned)
  sliceDef,   \* None, or Some(the slice descriptor handed to generateSliceCode)
  sliceText,  \* None, or Some(the text it returned)
  collectionDef, \* None, or Some(the collection descriptor handed to generateCollectionCode)
  collectionText, \* None, or Some(the text it returned)
  dbInput,    \* None, or Some(the arguments handed to generateTanStackDBFiles)
  dbFiles,    \* None, or Some(the file map it returned)
  dbReady,    \* service worker: `let dbReady`
  pendingRequests, \* service worker: `let pendingRequests`, the requests held
  fetches,    \* per request: where its handleAPIRequest call stands, and its response
  bridge,     \* page: where setupDatabaseBridge stands
  toPage,     \* DB_REQUEST messages posted to the page and not yet dispatched
  toWorker,   \* messages posted to the service worker and not yet dispatched
  handling,   \* page: the requests whose handleDBRequest call is awaited
  replies,    \* the responses posted on a request's message port, not yet dispatched
  db,         \* pglite: `let db`, "null" or "PGlite"
  schemaRuns, \* how many times the CREATE TABLE script has completed
  seedRuns,   \* how many times seedDatabase has completed
  callers     \* per caller: the call it makes and where the call stands

selectorVars == <<selector, code, batch, files>>
tableVars == <<table, zodText, tsText, sqlText>>
runVars == <<run, data, vals, result>>
sliceVars == <<sliceDef, sliceText>>
collectionVars == <<collectionDef, collectionText>>
dbFilesVars == <<dbInput, dbFiles>>
workerVars == <<dbReady, pendingRequests, fetches, bridge, toPage, toWorker, handling, replies>>
databaseVars == <<db, schemaRuns, seedRuns, callers>>
vars == <<selector, code, batch, files, table, zodText, tsText, sqlText, run, data, vals, result,
          sliceDef, sliceText, collectionDef, collectionText, dbInput, dbFiles,
          dbReady, pendingRequests, fetches, bridge, toPage, toWorker, handling, replies,
          db, schemaRuns, seedRuns, callers>>

\* --------------------------------------------------- selector descriptors

SelA == <<"select", "A">>
SelB == <<"select", "B">>
SelC == <<"select", "C">>
SelectorNames == {SelA, SelB, SelC}

SliceSource == [type |-> "slice", slice |-> "filters", path |-> "selectedStatus"]
CollectionSource(query) == [type |-> "collection", collection |-> "orders", query |-> query]
SelectorSource(name) == [type |-> "selector", selector |-> name]

\* The name a filter's valueFrom refers to in the descriptors below.
SelStatus == <<"select", "SelectedStatus">>

InputPool ==
  { [name |-> <<"status">>, source |-> SliceSource],
    [name |-> SelStatus, source |-> SliceSource],
    [name |-> <<"orders">>, source |-> CollectionSource(None)],
    [name |-> <<"recent">>, source |-> CollectionSource(Some("recentOrders"))],
    [name |-> <<"base">>, source |-> SelectorSource(SelB)] }

FilterLiteral ==
  [op |-> "filter",
   predicate |-> [field |-> "status", operator |-> "eq", value |-> "active", valueFrom |-> None]]
FilterValueFrom ==
  [op |-> "filter",
   predicate |-> [field |-> "status", operator |-> "eq", value |-> "",
                  valueFrom |-> Some([selector |-> SelStatus])]]
FilterIn ==
  [op |-> "filter",
   predicate |-> [field |-> "status", operator |-> "in", value |-> "",
                  valueFrom |-> Some([selector |-> SelStatus])]]
\* An op tag outside TransformOperationSchema.
UnknownOp == [op |-> "reverse"]

OpPool ==
  { FilterLiteral, FilterValueFrom, FilterIn,
    [op |-> "map", fields |-> <<[kind |-> "keep", name |-> "total"],
                                [kind |-> "rename", from |-> "status", to |-> "state"]>>],
    [op |-> "sort", field |-> "total", direction |-> "desc"],
    [op |-> "slice", start |-> None, end |-> Some(2)],
    [op |-> "groupBy", field |-> "status"],
    [op |-> "unique", field |-> "status"],
    UnknownOp }

\* An aggregation tag outside AggregationSchema.
UnknownAgg == [type |-> "median", field |-> "total"]

OutputPool ==
  { [type |-> "array"],
    [type |-> "single"],
    [type |-> "aggregation", aggregation |-> [type |-> "sum", field |-> "total"]],
    [type |-> "aggregation", aggregation |-> [type |-> "avg", field |-> "total"]],
    [type |-> "aggregation", aggregation |-> UnknownAgg],
    [type |-> "object",
     fields |-> <<[key |-> "n", agg |-> [type |-> "count"]],
                  [key |-> "mean", agg |-> [type |-> "avg", field |-> "total"]]>>] }

MemoizePool ==
  { None,
    Some([enabled |-> FALSE]),
    Some([enabled |-> TRUE]),
    Some([enabled |-> TRUE, maxSize |-> "100", equalityFn |-> "deep"]) }

Selectors ==
  [name : {SelA, SelC},
   inputs : SeqsUpTo(InputPool, MaxInputs),
   pipeline : SeqsUpTo(OpPool, MaxPipe),
   output : OutputPool,
   memoize : MemoizePool]

\* The selectors of a batch: one input each, so that a batch of three stays
\* small; the pipeline and the output carry at most one unknown tag.
BatchInputPool ==
  { [name |-> <<"status">>, source |-> SliceSource],
    [name |-> <<"orders">>, source |-> CollectionSource(None)] } \cup
  { [name |-> <<"base">>, source |-> SelectorSource(n)] : n \in SelectorNames }

BatchShapes ==
  { [pipeline |-> <<>>, output |-> [type |-> "array"]],
    [pipeline |-> <<UnknownOp>>, output |-> [type |-> "array"]],
    [pipeline |-> <<>>, output |-> [type |-> "aggregation", aggregation |-> UnknownAgg]] }

BatchSelector(name, input, shape) ==
  [name |-> name, inputs |-> <<input>>, pipeline |-> shape.pipeline,
   output |-> shape.output, memoize |-> None]

BatchConfigs == BatchInputPool \X BatchShapes

\* A selector's name is what names it in the batch (its file is
\* selectors/<name>.ts, and other selectors refer to it by name): the names
\* of a batch are pairwise distinct, in any order.
BatchNames(k) ==
  {n \in [1..k -> SelectorNames] : \A i, j \in 1..k : n[i] = n[j] => i = j}

\* ------------------------------------------------------------ operations

\* A caller compiles one selector.
GenerateCrossSourceSelectorCode ==
  /\ code = None
  /\ selector # None
  /\ code' = Some(generateCrossSourceSelectorCode(Get(selector)))
  /\ UNCHANGED <<workerVars, databaseVars, dbFilesVars, sliceVars, collectionVars, selector, batch, files, tableVars, runVars>>

\* A caller compiles a batch.
GenerateSelectorFiles ==
  /\ files = None
  /\ batch # None
  /\ files' = Some(generateSelectorFiles(Get(batch)))
  /\ UNCHANGED <<workerVars, databaseVars, dbFilesVars, sliceVars, collectionVars, selector, code, batch, tableVars, runVars>>

NoTable == table = None /\ zodText = None /\ tsText = None /\ sqlText = None
NoSelector == selector = None /\ code = None /\ batch = None /\ files = None
NoRun == run = None /\ data = <<>> /\ vals = <<>> /\ result = None
NoSlice == sliceDef = None /\ sliceText = None
NoCollection == collectionDef = None /\ collectionText = None
NoDBFiles == dbInput = None /\ dbFiles = None
NoWorker ==
  /\ dbReady = FALSE /\ pendingRequests = <<>> /\ fetches = <<>> /\ bridge = "unused"
  /\ toPage = <<>> /\ toWorker = <<>> /\ handling = {} /\ replies = {}
NoDatabase == db = "null" /\ schemaRuns = 0 /\ seedRuns = 0 /\ callers = <<>>

InitSelector ==
  /\ NoWorker
  /\ NoDatabase
  /\ NoDBFiles
  /\ NoSlice
  /\ NoCollection
  /\ selector \in {Some(s) : s \in Selectors}
  /\ code = None
  /\ batch = None
  /\ files = None
  /\ NoTable
  /\ NoRun

InitBatch ==
  /\ NoWorker
  /\ NoDatabase
  /\ NoDBFiles
  /\ NoSlice
  /\ NoCollection
  /\ selector = None
  /\ code = None
  /\ \E k \in 1..MaxBatch :
       \E names \in BatchNames(k) :
         \E configs \in [1..k -> BatchConfigs] :
           batch = Some([i \in 1..k |->
                           BatchSelector(names[i], configs[i][1], configs[i][2])])
  /\ files = None
  /\ NoTable
  /\ NoRun

SpecSelector == InitSelector /\ [][GenerateCrossSourceSelectorCode]_vars
SpecBatch == InitBatch /\ [][GenerateSelectorFiles]_vars

\* ------------------------------------------------------ table descriptors

NoConstraints ==
  [minLength |-> None, maxLength |-> None, min |-> None, max |-> None,
   pattern |-> None, enum |-> None]

Column(name, type, nullable, constraints) ==
  [name |-> name, type |-> type, nullable |-> nullable, default |-> None,
   constraints |-> constraints]

ColumnPool ==
  { Column("id", "uuid", FALSE, None),
    Column("status", "string", FALSE, None),
    Column("total", "number", TRUE, Some([NoConstraints EXCEPT !.min = Some("0")])),
    Column("createdAt", "datetime", FALSE, None),
    Column("title", "string", FALSE, Some([NoConstraints EXCEPT !.maxLength = Some("50")])),
    Column("code", "string", TRUE,
           Some([NoConstraints EXCEPT !.minLength = Some("1"), !.maxLength = Some("8")])),
    Column("slug", "string", FALSE,
           Some([NoConstraints EXCEPT !.maxLength = Some("20"), !.pattern = Some("^[a-z]+$")])) }

\* The names that match /^[A-Z][a-zA-Z0-9]*$/, the pattern of
\* TableSchemaDefinition.name, among the table names used here.
PascalCaseNames == {"Order"}

\* The tables handed to the table compiler, which takes any TableSchema:
\* also a name the pattern rejects and a primaryKey that is no identifier.
Tables ==
  [name : {"Order", "order_items"},
   primaryKey : {"id", "key", "my key"},
   columns : SeqsUpTo(ColumnPool, MaxCols),
   indexes : {None},
   timestamps : BOOLEAN,
   softDelete : BOOLEAN]

TableToZodSchema ==
  /\ table # None /\ zodText = None
  /\ zodText' = Some(tableToZodSchema(Get(table)))
  /\ UNCHANGED <<workerVars, databaseVars, dbFilesVars, sliceVars, collectionVars, selectorVars, table, tsText, sqlText, runVars>>

TableToTypeScript ==
  /\ table # None /\ tsText = None
  /\ tsText' = Some(tableToTypeScript(Get(table)))
  /\ UNCHANGED <<workerVars, databaseVars, dbFilesVars, sliceVars, collectionVars, selectorVars, table, zodText, sqlText, runVars>>

TableToSQL ==
  /\ table # None /\ sqlText = None
  /\ sqlText' = Some(tableToSQL(Get(table)))
  /\ UNCHANGED <<workerVars, databaseVars, dbFilesVars, sliceVars, collectionVars, selectorVars, table, zodText, tsText, runVars>>

InitTable ==
  /\ NoWorker
  /\ NoDatabase
  /\ NoDBFiles
  /\ NoSlice
  /\ NoCollection
  /\ NoSelector
  /\ NoRun
  /\ table \in {Some(t) : t \in Tables}
  /\ zodText = None
  /\ tsText = None
  /\ sqlText = None

NextTable == TableToZodSchema \/ TableToTypeScript \/ TableToSQL

SpecTable == InitTable /\ [][NextTable]_vars

\* ------------------------------------------------- running emitted code

Item(ref, k, total) == [ref |-> ref, k |-> k, total |-> total]

\* The objects of the heap: two share a key, one of them has no total.
ItemPool ==
  { Item(1, Some(1), Some(2)),
    Item(2, Some(1), None),
    Item(3, Some(0), Some(1)) }

RunOpPool ==
  { [op |-> "unique", field |-> "k"],
    [op |-> "unique", field |-> ""],
    [op |-> "sort", field |-> "k", direction |-> "asc"],
    [op |-> "sort", field |-> "k", direction |-> "desc"],
    [op |-> "slice", start |-> None, end |-> Some(2)],
    [op |-> "slice", start |-> None, end |-> Some(0)],
    [op |-> "filter",
     predicate |-> [field |-> "k", operator |-> "gt", value |-> "1", valueFrom |-> None]] }

RunOutputPool ==
  { [type |-> "array"],
    [type |-> "aggregation", aggregation |-> [type |-> "avg", field |-> "total"]],
    [type |-> "object",
     fields |-> <<[key |-> "n", agg |-> [type |-> "count"]],
                  [key |-> "mean", agg |-> [type |-> "avg", field |-> "total"]]>>] }

RunSelectors ==
  [name : {SelA},
   inputs : {<<[name |-> <<"orders">>, source |-> CollectionSource(None)]>>},
   pipeline : SeqsUpTo(RunOpPool, MaxRunPipe),
   output : RunOutputPool,
   memoize : {None}]

\* The pipeline expression of the running body, and the body.
RunPipelineExpr == ApplyPipeline(Ident(Get(run).inputs[1].name), Get(run).pipeline)
RunBody == generateSelectorBody(Get(run).inputs, Get(run).pipeline, Get(run).output)

\* The next emitted transform of the body is evaluated.
EvalNextTransform ==
  /\ run # None /\ result = None
  /\ Len(vals) <= Len(TransformNodes(RunPipelineExpr))
  /\ \E v \in EvalTransform(TransformNodes(RunPipelineExpr)[Len(vals)], vals[Len(vals)]) :
       /\ vals' = HeldAfter(TransformNodes(RunPipelineExpr), vals, v)
       /\ data' = vals'[1]
  /\ UNCHANGED <<workerVars, databaseVars, dbFilesVars, sliceVars, collectionVars, selectorVars, tableVars, run, result>>

\* The pipeline has been evaluated: the body returns.
EvalReturn ==
  /\ run # None /\ result = None
  /\ Len(vals) = Len(TransformNodes(RunPipelineExpr)) + 1
  /\ result' = Some(EvalBody(RunBody, RunPipelineExpr, vals[Len(vals)]))
  /\ UNCHANGED <<workerVars, databaseVars, dbFilesVars, sliceVars, collectionVars, selectorVars, tableVars, run, data, vals>>

InitRun ==
  /\ NoWorker
  /\ NoDatabase
  /\ NoDBFiles
  /\ NoSlice
  /\ NoCollection
  /\ NoSelector
  /\ NoTable
  /\ run \in {Some(s) : s \in RunSelectors}
  /\ data \in SeqsUpTo(ItemPool, MaxLen)
  /\ vals = <<data>>
  /\ result = None

NextRun == EvalNextTransform \/ EvalReturn

SpecRun == InitRun /\ [][NextRun]_vars

\* ------------------------------------------- slice generator (part_008)

\* A StateValueType is one of the literals ([lit |-> "string"]) or an object
\* with one of the keys arrayOf, record, nullable: typeof type === "string"
\* is "lit" \in DOMAIN type, and "arrayOf" in type is "arrayOf" \in DOMAIN type.

\* JavaScript values that reach JSON.stringify.  A number holds its decimal
\* text.
JsonString(s) == [js |-> "string", s |-> s]
JsonNumber(text) == [js |-> "number", text |-> text]
JsonBoolean(b) == [js |-> "boolean", b |-> b]
JsonArray(items) == [js |-> "array", items |-> items]
JsonObject == [js |-> "object"]
JsonNull == [js |-> "null"]
JsUndefined == [js |-> "undefined"]

\* `${JSON.stringify(value)}`: the text spliced into the template.
\* JSON.stringify(undefined) is undefined, which the template prints as
\* "undefined"; the objects used here have no properties.
RECURSIVE JSONstringify(_)
JSONstringify(value) ==
  IF value.js = "string" THEN <<"\"", value.s, "\"">>
  ELSE IF value.js = "number" THEN <<value.text>>
  ELSE IF value.js = "boolean" THEN <<IF value.b THEN "true" ELSE "false">>
  ELSE IF value.js = "array"
  THEN LET Join[i \in 0..Len(value.items)] ==
             IF i = 0 THEN <<>>
             ELSE Join[i - 1] \o (IF i > 1 THEN <<",">> ELSE <<>>) \o
                  JSONstringify(value.items[i])
       IN <<"[">> \o Join[Len(value.items)] \o <<"]">>
  ELSE IF value.js = "object" THEN <<"{", "}">>
  ELSE IF value.js = "null" THEN <<"null">>
  ELSE <<"undefined">>

mapTypeToTS(type) ==
  IF "lit" \in DOMAIN type
  THEN IF type.lit \in {"string", "number", "boolean", "string[]", "number[]"}
       THEN <<type.lit>>
       ELSE <<"unknown">>
  ELSE IF "arrayOf" \in DOMAIN type THEN <<type.arrayOf, "[]">>
  ELSE IF "record" \in DOMAIN type
  THEN <<"Record<", type.record[1], ", ", type.record[2], ">">>
  ELSE IF "nullable" \in DOMAIN type THEN <<type.nullable, " | null">>
  ELSE <<"unknown">>

getDefaultForType(type) ==
  IF "lit" \in DOMAIN type
  THEN IF type.lit = "string" THEN JsonString("")
       ELSE IF type.lit = "number" THEN JsonNumber("0")
       ELSE IF type.lit = "boolean" THEN JsonBoolean(FALSE)
       ELSE IF type.lit \in {"string[]", "number[]"} THEN JsonArray(<<>>)
       ELSE JsUndefined
  ELSE IF "arrayOf" \in DOMAIN type THEN JsonArray(<<>>)
  ELSE IF "record" \in DOMAIN type THEN JsonObject
  ELSE IF "nullable" \in DOMAIN type THEN JsonNull
  ELSE JsonNull

\* f.default ?? getDefaultForType(f.type), where the code tests !== undefined.
defaultValNullish(f) ==
  IF IsSome(f.default) /\ Get(f.default) # JsonNull
  THEN Get(f.default)
  ELSE getDefaultForType(f.type)

\* f.default !== undefined ? f.default : getDefaultForType(f.type); an
\* omitted default is None.
defaultVal(f) ==
  IF IsSome(f.default) THEN Get(f.default) ELSE getDefaultForType(f.type)

\* str.charAt(0).toUpperCase() + str.slice(1), of the words used here.
UpperFirst(word) ==
  LET map == [filters |-> "Filters", orders |-> "Orders", items |-> "Items",
              pre |-> "Pre", select |-> "Select", edIds |-> "EdIds"]
  IN IF word \in DOMAIN map THEN map[word] ELSE word

\* capitalize() of a text in chunks: of its first chunk.
capitalize(str) ==
  IF Len(str) = 0 THEN str ELSE <<UpperFirst(str[1])>> \o Tail(str)

\* name.replace("select", ""): the first occurrence, wherever it is.  The
\* names used here hold "select" as a chunk of its own.
ReplaceFirstSelect(name) ==
  LET hits == {i \in DOMAIN name : name[i] = "select"}
  IN IF hits = {} THEN name
     ELSE LET i == CHOOSE h \in hits : \A g \in hits : h <= g
          IN SubSeq(name, 1, i - 1) \o SubSeq(name, i + 1, Len(name))

generateComputation(computation) ==
  IF computation.op \in {"filter", "find"}
  THEN [t |-> computation.op, src |-> "input0", arg |-> computation.predicate]
  ELSE IF computation.op = "map"
  THEN [t |-> "map", src |-> "input0", arg |-> computation.mapper]
  ELSE IF computation.op = "sort"
  THEN [t |-> "sortCopy", src |-> "input0", arg |-> computation.comparator]
  ELSE IF computation.op = "count" THEN [t |-> "length", src |-> "input0"]
  ELSE IF computation.op \in {"sum", "groupBy"}
  THEN [t |-> computation.op, src |-> "input0", arg |-> computation.field]
  ELSE IF computation.op = "combine"
  THEN [t |-> "call", fn |-> computation.combiner,
        args |-> <<"input0", "input1", "input2", "input3", "input4">>]
  ELSE [t |-> "return", src |-> "input0"]

generateParameterizedComputation(sel) ==
  IF sel.computation.op = "filter"
  THEN [t |-> "filter", src |-> "items", arg |-> sel.computation.expression]
  ELSE IF sel.computation.op = "find"
  THEN [t |-> "find", src |-> "items", arg |-> sel.computation.expression]
  ELSE IF sel.computation.op = "includes"
  THEN [t |-> "some", src |-> "items", arg |-> sel.computation.expression]
  ELSE [t |-> "return", src |-> "items"]

\* The accessor emitted for one input of a derived selector.
inputSelector(sliceName, i) ==
  IF IsSome(i.slice) /\ Get(i.slice) # "" /\ Get(i.slice) # sliceName
  THEN <<"select">> \o capitalize(<<Get(i.slice)>>) \o
       capitalize(ReplaceFirstSelect(i.selector))
  ELSE i.selector

\* A selector without a type field has type None.
generateSelectorFromDefinition(sliceName, sel) ==
  IF ~IsSome(sel.type) \/ Get(sel.type) = "simple"
  THEN [t |-> "simple", name |-> sel.name, slice |-> sliceName, path |-> sel.path]
  ELSE IF Get(sel.type) = "derived"
  THEN [t |-> "derived", name |-> sel.name,
        inputSelectors |-> [k \in DOMAIN sel.inputs |->
                              inputSelector(sliceName, sel.inputs[k])],
        params |-> [k \in DOMAIN sel.inputs |-> [prefix |-> "input", index |-> k - 1]],
        computation |-> generateComputation(sel.computation)]
  ELSE IF Get(sel.type) = "parameterized"
  THEN [t |-> "parameterized", name |-> sel.name, params |-> sel.params,
        baseSelector |-> sel.baseSelector,
        computation |-> generateParameterizedComputation(sel)]
  ELSE [t |-> "empty"]

\* loading fields set to false on pending.
getLoadingValueFalse(field) ==
  IF field = "loading" \/ field = "isLoading" THEN "false"
  ELSE IF field = "error" THEN "null"
  ELSE "/* set loading state */"

getLoadingValue(field) ==
  IF field = "loading" \/ field = "isLoading" THEN "true"
  ELSE IF field = "error" THEN "null"
  ELSE "/* set loading state */"

\* state.${f} = ${getLoadingValue(f)};
pendingStatement(f) == [t |-> "assign", target |-> f, text |-> getLoadingValue(f)]
\* state.${f} = action.payload.${f} ?? state.${f};
fulfilledStatement(f) == [t |-> "assign", target |-> f, payloadField |-> f, orState |-> f]
\* state.${f} = action.payload as string;
rejectedStatement(f) == [t |-> "assign", target |-> f, payloadAs |-> "string"]

\* The statement a handler has for one field of its list.
handlerStatement(handler, f) ==
  IF handler = "pending" THEN pendingStatement(f)
  ELSE IF handler = "fulfilled" THEN fulfilledStatement(f)
  ELSE rejectedStatement(f)

\* The statements of one addCase handler: list?.map(stmt).join(...) ||
\* "// <handler>".  A missing list and an empty one both join to nothing
\* and leave the comment.
handlerBody(list, handler) ==
  IF IsSome(list) /\ Len(Get(list)) > 0
  THEN [k \in DOMAIN Get(list) |-> handlerStatement(handler, Get(list)[k])]
  ELSE <<[t |-> "comment", text |-> <<"// ", handler>>]>>

extraReducers(thunk) ==
  [thunk |-> thunk.name,
   pending |-> handlerBody(thunk.onPending, "pending"),
   fulfilled |-> handlerBody(thunk.onFulfilled, "fulfilled"),
   rejected |-> handlerBody(thunk.onRejected, "rejected")]

\* The optional lists of a slice: list?.map(f) ... || "".
OrEmpty(list) == IF IsSome(list) THEN Get(list) ELSE <<>>

\* The text generateSliceCode returns, by the parts spliced into its
\* template.  A payload only reaches a type annotation and the body of the
\* request, and is left out.
generateSliceCode(def) ==
  [name |-> def.name,
   capitalName |-> capitalize(<<def.name>>),
   stateFields |-> [k \in DOMAIN def.initialState |->
                      [name |-> def.initialState[k].name,
                       type |-> mapTypeToTS(def.initialState[k].type)]],
   initialStateFields |-> [k \in DOMAIN def.initialState |->
                             [name |-> def.initialState[k].name,
                              value |-> JSONstringify(defaultVal(def.initialState[k]))]],
   thunkCode |-> [k \in DOMAIN OrEmpty(def.thunks) |->
                    LET thunk == OrEmpty(def.thunks)[k]
                    IN [name |-> thunk.name,
                        type |-> <<def.name, "/", thunk.name>>,
                        endpoint |-> IF IsSome(thunk.endpoint) /\ Get(thunk.endpoint) # ""
                                     THEN <<Get(thunk.endpoint)>>
                                     ELSE <<"/api/", thunk.name>>,
                        method |-> IF IsSome(thunk.method) THEN Get(thunk.method) ELSE "GET"]],
   reducerCode |-> [k \in DOMAIN OrEmpty(def.reducers) |->
                      [name |-> OrEmpty(def.reducers)[k].name,
                       modifies |-> OrEmpty(def.reducers)[k].modifies]],
   extraReducersCode |-> [k \in DOMAIN OrEmpty(def.thunks) |->
                            extraReducers(OrEmpty(def.thunks)[k])],
   actions |-> [k \in DOMAIN OrEmpty(def.reducers) |-> OrEmpty(def.reducers)[k].name],
   selectorCode |-> [k \in DOMAIN OrEmpty(def.selectors) |->
                       generateSelectorFromDefinition(def.name, OrEmpty(def.selectors)[k])]]

\* ------------------------------------------------------ slice descriptors

StateField(name, type, default) == [name |-> name, type |-> type, default |-> default]

StateValueTypes ==
  { [lit |-> "string"], [lit |-> "number"], [lit |-> "boolean"],
    [lit |-> "string[]"], [lit |-> "number[]"],
    [arrayOf |-> "Order"], [record |-> <<"string", "number">>], [nullable |-> "string"] }

\* Every type with its default omitted, and fields whose default is given:
\* null, a falsy value and other values.
StateFieldPool ==
  { StateField("value", type, None) : type \in StateValueTypes } \cup
  { StateField("error", [lit |-> "string"], Some(JsonNull)),
    StateField("page", [lit |-> "number"], Some(JsonNumber("1"))),
    StateField("loading", [lit |-> "boolean"], Some(JsonBoolean(TRUE))),
    StateField("tags", [lit |-> "string[]"], Some(JsonArray(<<JsonString("a"), JsonString("b")>>))) }

Thunk(onPending, onFulfilled, onRejected) ==
  [name |-> "fetchOrders", endpoint |-> None, method |-> None,
   onPending |-> onPending, onFulfilled |-> onFulfilled, onRejected |-> onRejected]

ThunkPool ==
  { Thunk(p, f, r) :
      p \in {None, Some(<<>>), Some(<<"loading", "error">>), Some(<<"isLoading", "items">>)},
      f \in {None, Some(<<"items", "loading">>)},
      r \in {None, Some(<<"error", "loading">>)} }

SelectorInput(name, of) == [selector |-> name, slice |-> of]

\* Inputs of the slice itself (no slice, its own name) and of another
\* slice, whose selector name starts with "select", holds it further on, or
\* does not hold it.
SelectorInputPool ==
  { SelectorInput(<<"select", "Items">>, None),
    SelectorInput(<<"select", "Items">>, Some("orders")),
    SelectorInput(<<"select", "Items">>, Some("filters")),
    SelectorInput(<<"items">>, Some("filters")),
    SelectorInput(<<"pre", "select", "edIds">>, Some("filters")) }

\* The inputs lists of a derived selector: none, each input alone, and one
\* of each kind together.
SelectorInputLists ==
  {<<>>} \cup {<<i>> : i \in SelectorInputPool} \cup
  { <<SelectorInput(<<"select", "Items">>, None),
      SelectorInput(<<"pre", "select", "edIds">>, Some("filters")),
      SelectorInput(<<"select", "Items">>, Some("filters")),
      SelectorInput(<<"items">>, Some("orders"))>> }

DerivedSelector(inputs) ==
  [type |-> Some("derived"), name |-> <<"select", "Visible">>, inputs |-> inputs,
   computation |-> [op |-> "identity"]]

SimpleSelector ==
  [type |-> None, name |-> <<"select", "Items">>, path |-> "items"]

ParameterizedSelector ==
  [type |-> Some("parameterized"), name |-> <<"select", "ById">>,
   params |-> <<[name |-> "id", type |-> "string"]>>,
   baseSelector |-> <<"select", "Items">>,
   computation |-> [op |-> "find", expression |-> "item.id === id"]]

SelectorLists ==
  {None, Some(<<SimpleSelector, ParameterizedSelector>>)} \cup
  { Some(<<SimpleSelector, DerivedSelector(inputs)>>) : inputs \in SelectorInputLists }

SliceDefinitions ==
  [name : {"orders"},
   initialState : SeqsUpTo(StateFieldPool, MaxFields),
   reducers : {None, Some(<<[name |-> "setPage", modifies |-> <<"page">>]>>)},
   thunks : {None} \cup {Some(<<thunk>>) : thunk \in ThunkPool},
   selectors : SelectorLists]

\* A caller compiles one slice.
GenerateSliceCode ==
  /\ sliceDef # None /\ sliceText = None
  /\ sliceText' = Some(generateSliceCode(Get(sliceDef)))
  /\ UNCHANGED <<workerVars, databaseVars, dbFilesVars, selectorVars, tableVars, runVars, sliceDef, collectionVars>>

InitSlice ==
  /\ NoWorker
  /\ NoDatabase
  /\ NoDBFiles
  /\ NoSelector
  /\ NoTable
  /\ NoRun
  /\ NoCollection
  /\ sliceDef \in {Some(d) : d \in SliceDefinitions}
  /\ sliceText = None

SpecSlice == InitSlice /\ [][GenerateSliceCode]_vars

\* ------------------------------------ TanStack DB generator (part_008)

\* The stub named after the schema where the code names it after the collection.
generateSourceConfigStubOfSchema(name, source, schemaName, primaryKey) ==
  IF source.type = "query"
  THEN [t |-> "queryCollectionOptions", of |-> schemaName, id |-> name,
        queryKey |-> source.queryKey, endpoint |-> source.endpoint,
        getKey |-> primaryKey, schema |-> <<schemaName, "Schema">>,
        refetchInterval |-> IF IsSome(source.refetchInterval) /\ Get(source.refetchInterval) # 0
                            THEN source.refetchInterval ELSE None]
  ELSE IF source.type = "electric"
  THEN [t |-> "electricCollectionOptions", of |-> schemaName, id |-> name,
        table |-> source.table,
        where |-> IF IsSome(source.where) /\ Get(source.where) # ""
                  THEN source.where ELSE None,
        getKey |-> primaryKey, schema |-> <<schemaName, "Schema">>]
  ELSE IF source.type = "localStorage"
  THEN [t |-> "localStorageCollectionOptions", of |-> schemaName, id |-> name,
        key |-> source.key, getKey |-> primaryKey, schema |-> <<schemaName, "Schema">>]
  ELSE [t |-> "stub", id |-> schemaName]

\* The setup block of a collection file, by the template that is chosen.
\* An optional number or string is spliced in only when it is truthy.
generateSourceConfig(name, source, schemaName, primaryKey) ==
  IF source.type = "query"
  THEN [t |-> "queryCollectionOptions", of |-> schemaName, id |-> name,
        queryKey |-> source.queryKey, endpoint |-> source.endpoint,
        getKey |-> primaryKey, schema |-> <<schemaName, "Schema">>,
        refetchInterval |-> IF IsSome(source.refetchInterval) /\ Get(source.refetchInterval) # 0
                            THEN source.refetchInterval ELSE None]
  ELSE IF source.type = "electric"
  THEN [t |-> "electricCollectionOptions", of |-> schemaName, id |-> name,
        table |-> source.table,
        where |-> IF IsSome(source.where) /\ Get(source.where) # ""
                  THEN source.where ELSE None,
        getKey |-> primaryKey, schema |-> <<schemaName, "Schema">>]
  ELSE IF source.type = "localStorage"
  THEN [t |-> "localStorageCollectionOptions", of |-> schemaName, id |-> name,
        key |-> source.key, getKey |-> primaryKey, schema |-> <<schemaName, "Schema">>]
  ELSE [t |-> "stub", id |-> name]

mapOperator(operator) ==
  LET map == [eq |-> "eq", neq |-> "neq", gt |-> "gt", gte |-> "gte", lt |-> "lt",
              lte |-> "lte", in |-> "inArray", notIn |-> "notInArray",
              contains |-> "like", startsWith |-> "like", endsWith |-> "like",
              isNull |-> "isNull", isNotNull |-> "isNotNull"]
  IN IF operator \in DOMAIN map THEN map[operator] ELSE "eq"

\* .where(({ items }) => op(items.field, value))
whereCall(w) ==
  [call |-> "where", fn |-> mapOperator(w.operator), field |-> w.field,
   value |-> IF IsSome(w.valueFrom)
             THEN <<"/* dynamic: ", Get(w.valueFrom).slice, ".", Get(w.valueFrom).selector, " */">>
             ELSE JSONstringify(IF IsSome(w.value) THEN Get(w.value) ELSE JsUndefined)]

\* A selection is a field name ([field |-> s]) or a renamed field
\* ([field |-> s, as |-> a]).
selectCall(select) ==
  [call |-> "select",
   fields |-> [k \in DOMAIN select |->
                 IF "as" \in DOMAIN select[k]
                 THEN [key |-> select[k].as, from |-> select[k].field]
                 ELSE [key |-> select[k].field, from |-> select[k].field]]]

orderByCall(orderBy) ==
  [call |-> "orderBy", sorts |-> [k \in DOMAIN orderBy |-> orderBy[k].field]]

\* The limit call before the ordering call.
queryBuilderLimitFirst(query) ==
  <<[call |-> "from", items |-> "collection"]>> \o
  (IF IsSome(query.where) /\ Len(Get(query.where)) > 0
   THEN [k \in DOMAIN Get(query.where) |-> whereCall(Get(query.where)[k])]
   ELSE <<>>) \o
  (IF IsSome(query.select) /\ Len(Get(query.select)) > 0
   THEN <<selectCall(Get(query.select))>> ELSE <<>>) \o
  (IF IsSome(query.limit) /\ Get(query.limit) # 0
   THEN <<[call |-> "limit", n |-> Get(query.limit)]>> ELSE <<>>) \o
  (IF IsSome(query.orderBy) /\ Len(Get(query.orderBy)) > 0
   THEN <<orderByCall(Get(query.orderBy))>> ELSE <<>>)

\* The chain of calls of one live query, in the order the code appends
\* them to queryBuilder.
queryBuilder(query) ==
  <<[call |-> "from", items |-> "collection"]>> \o
  (IF IsSome(query.where) /\ Len(Get(query.where)) > 0
   THEN [k \in DOMAIN Get(query.where) |-> whereCall(Get(query.where)[k])]
   ELSE <<>>) \o
  (IF IsSome(query.select) /\ Len(Get(query.select)) > 0
   THEN <<selectCall(Get(query.select))>> ELSE <<>>) \o
  (IF IsSome(query.orderBy) /\ Len(Get(query.orderBy)) > 0
   THEN <<orderByCall(Get(query.orderBy))>> ELSE <<>>) \o
  (IF IsSome(query.limit) /\ Get(query.limit) # 0
   THEN <<[call |-> "limit", n |-> Get(query.limit)]>> ELSE <<>>)

generateLiveQueryExport(collectionName, query) ==
  [export |-> <<query.name, "Query">>, chain |-> queryBuilder(query)]

generateCollectionCode(def, tableSchema) ==
  LET primaryKey == IF tableSchema.primaryKey # "" THEN tableSchema.primaryKey ELSE "id"
      liveQueries == IF IsSome(def.liveQueries) THEN Get(def.liveQueries) ELSE <<>>
  IN [operatorImports |-> <<"eq", "neq", "gt", "gte", "lt", "lte",
                             "inArray", "like", "isNull", "isNotNull">>,
      schemaImport |-> <<tableSchema.name, "Schema">>,
      sourceConfig |-> generateSourceConfig(def.name, def.source, tableSchema.name, primaryKey),
      liveQueryExports |-> [k \in DOMAIN liveQueries |->
                              generateLiveQueryExport(def.name, liveQueries[k])],
      export |-> <<def.name, "Collection">>,
      queries |-> [k \in DOMAIN liveQueries |->
                     [key |-> liveQueries[k].name, value |-> <<liveQueries[k].name, "Query">>]]]

generateOptimisticUpdate(type, collection) ==
  IF type = "insert" THEN [t |-> "insert", on |-> <<collection, "Collection">>]
  ELSE IF type = "update" THEN [t |-> "update", on |-> <<collection, "Collection">>]
  ELSE IF type = "delete" THEN [t |-> "delete", on |-> <<collection, "Collection">>]
  ELSE [t |-> "custom"]

generateMutationCode(mutation) ==
  [import |-> [ident |-> <<mutation.collection, "Collection">>,
               from |-> <<"../collections/", mutation.collection, "Collection">>],
   export |-> mutation.name,
   onMutate |-> IF mutation.optimistic
                THEN Some(generateOptimisticUpdate(mutation.type, mutation.collection))
                ELSE None,
   endpoint |-> mutation.endpoint,
   method |-> mutation.method,
   refetch |-> IF mutation.optimistic THEN Some(<<mutation.collection, "Collection">>) ELSE None]

generateQueryClientCode == [export |-> <<"queryClient">>, from |-> <<"@tanstack/query-core">>]

generateDBSetupCode(collections) ==
  [queryClient |-> [ident |-> <<"queryClient">>, from |-> <<"./", "queryClient">>],
   exports |-> [i \in DOMAIN collections |->
                  [ident |-> <<collections[i].name, "Collection">>,
                   from |-> <<"./", "collections/", collections[i].name, "Collection">>]]]

generateDBProvidersCode == [export |-> <<"DBProvider">>, from |-> <<"./", "queryClient">>]

\* tableSchemas is a Record<string, TableSchema>: tableSchemas[k] is
\* undefined, which is falsy, when k is not one of its keys.
generateTanStackDBFiles(collections, mutations, tableSchemas) ==
  LET C[i \in 0..Len(collections)] ==
        IF i = 0 THEN Put(<<>>, <<"db/", "queryClient", ".ts">>, generateQueryClientCode)
        ELSE IF HasKey(tableSchemas, collections[i].schema)
        THEN Put(C[i - 1],
                 <<"db/", "collections/", collections[i].name, "Collection", ".ts">>,
                 generateCollectionCode(collections[i],
                                        Lookup(tableSchemas, collections[i].schema)))
        ELSE C[i - 1]
      M[i \in 0..Len(mutations)] ==
        IF i = 0 THEN C[Len(collections)]
        ELSE Put(M[i - 1], <<"db/", "mutations/", mutations[i].name, ".ts">>,
                 generateMutationCode(mutations[i]))
  IN Put(Put(M[Len(mutations)], <<"db/", "index", ".ts">>, generateDBSetupCode(collections)),
         <<"db/", "provider", ".tsx">>, generateDBProvidersCode)

\* ------------------------------------------------- collection descriptors

\* The source kinds of the schema, and one that is none of them.
SourcePool ==
  { [type |-> "query", endpoint |-> "/api/orders", queryKey |-> <<"orders">>,
     refetchInterval |-> None],
    [type |-> "query", endpoint |-> "/api/orders", queryKey |-> <<"orders">>,
     refetchInterval |-> Some(5000)],
    [type |-> "electric", table |-> "orders", where |-> None],
    [type |-> "localStorage", key |-> "orders"],
    [type |-> "indexedDB"] }

FilterCondition(field, operator, value, valueFrom) ==
  [field |-> field, operator |-> operator, value |-> value, valueFrom |-> valueFrom]

FilterConditionPool ==
  { FilterCondition("status", "eq", Some(JsonString("open")), None),
    FilterCondition("total", "gt", Some(JsonNumber("10")), None),
    FilterCondition("userId", "eq", None,
                    Some([slice |-> "filters", selector |-> "selectedUserId"])),
    FilterCondition("status", "notIn", Some(JsonArray(<<JsonString("void")>>)), None),
    FilterCondition("deletedAt", "isNull", None, None) }

LiveQuery(name, where, select, orderBy, limit) ==
  [name |-> name, where |-> where, select |-> select, orderBy |-> orderBy, limit |-> limit]

LiveQueries ==
  { LiveQuery("recent", where, select, orderBy, limit) :
      where \in {None} \cup {Some(w) : w \in SeqsUpTo(FilterConditionPool, MaxWhere)},
      select \in {None, Some(<<>>), Some(<<[field |-> "id"], [field |-> "total", as |-> "amount"]>>)},
      orderBy \in {None, Some(<<>>), Some(<<[field |-> "total", direction |-> "desc"]>>)},
      limit \in {None, Some(0), Some(10)} }

CollectionDefinitions ==
  [name : {"orders"},
   schema : {"Order"},
   source : SourcePool,
   liveQueries : {None} \cup {Some(<<q>>) : q \in LiveQueries} \cup
                 {Some(<<q, LiveQuery("all", None, None, None, None)>>) : q \in LiveQueries}]

\* The table schemas a collection is compiled against: name and primaryKey
\* are all that generateCollectionCode reads of them.
TableHeads == [name : {"Order"}, primaryKey : {"id", "key", ""}]

\* A caller compiles one collection against its table schema.
GenerateCollectionCode ==
  /\ collectionDef # None /\ collectionText = None
  /\ \E tableSchema \in TableHeads :
       collectionText' = Some(generateCollectionCode(Get(collectionDef), tableSchema))
  /\ UNCHANGED <<workerVars, databaseVars, dbFilesVars, selectorVars, tableVars, runVars, sliceVars, collectionDef>>

InitCollection ==
  /\ NoWorker
  /\ NoDatabase
  /\ NoDBFiles
  /\ NoSelector
  /\ NoTable
  /\ NoRun
  /\ NoSlice
  /\ collectionDef \in {Some(d) : d \in CollectionDefinitions}
  /\ collectionText = None

SpecCollection == InitCollection /\ [][GenerateCollectionCode]_vars

\* ------------------------------------------------------ TanStack DB files

DBCollections ==
  [name : {"orders", "users"},
   schema : {"Order", "User"},
   source : { [type |-> "query", endpoint |-> "/api/orders", queryKey |-> <<"orders">>,
               refetchInterval |-> None],
              [type |-> "localStorage", key |-> "orders"] },
   liveQueries : {None}]

Mutations ==
  [name : {"createOrder"},
   collection : {"orders"},
   type : {"insert", "update", "delete"},
   endpoint : {"/api/orders"},
   method : {"POST"},
   optimistic : BOOLEAN]

\* The tableSchemas records: none, Order only, Order and User.
TableSchemaRecords ==
  { <<>>,
    <<[key |-> "Order", value |-> [name |-> "Order", primaryKey |-> "id"]]>>,
    <<[key |-> "Order", value |-> [name |-> "Order", primaryKey |-> "id"]],
      [key |-> "User", value |-> [name |-> "User", primaryKey |-> ""]]>> }

\* A caller generates the files of a project.
GenerateTanStackDBFiles ==
  /\ dbInput # None /\ dbFiles = None
  /\ dbFiles' = Some(generateTanStackDBFiles(Get(dbInput).collections, Get(dbInput).mutations,
                                             Get(dbInput).tableSchemas))
  /\ UNCHANGED <<workerVars, databaseVars, selectorVars, tableVars, runVars, sliceVars,
                 collectionVars, dbInput>>

InitDBFiles ==
  /\ NoWorker
  /\ NoDatabase
  /\ NoSelector
  /\ NoTable
  /\ NoRun
  /\ NoSlice
  /\ NoCollection
  /\ \E collections \in SeqsUpTo(DBCollections, MaxCollections) :
       \E mutations \in SeqsUpTo(Mutations, MaxMutations) :
         \E tableSchemas \in TableSchemaRecords :
           dbInput = Some([collections |-> collections, mutations |-> mutations,
                           tableSchemas |-> tableSchemas])
  /\ dbFiles = None

SpecDBFiles == InitDBFiles /\ [][GenerateTanStackDBFiles]_vars

\* ------------------------------- service worker (part_002, lines 133-245)
\* ------------------- and the page's bridge (request-handler.ts, 404-426)

Requests == 1..MaxRequests

\* The Response handleAPIRequest returns for what the page replied:
\* status result.status || 500 for an error, result.status || 200 otherwise
\* (an absent status is 0 here).
responseStatus(reply) ==
  IF reply.error
  THEN (IF reply.status # 0 THEN reply.status ELSE 500)
  ELSE (IF reply.status # 0 THEN reply.status ELSE 200)

\* What handleDBRequest can resolve to: data, data with a status, an error
\* with a status, an error without one.
DBResponses ==
  { [error |-> FALSE, status |-> 0], [error |-> FALSE, status |-> 201],
    [error |-> TRUE, status |-> 404], [error |-> TRUE, status |-> 0] }

\* The page fetches a URL.  The fetch listener leaves a URL outside
\* /api/sync to the network and answers the others with
\* handleAPIRequest(event.request), whatever dbReady is; the call runs up
\* to its first await.
Fetch(r) ==
  /\ fetches[r].pc = "idle"
  /\ \E startsWithApiPrefix \in BOOLEAN :
       fetches' = [fetches EXCEPT ![r].pc =
                     IF startsWithApiPrefix THEN "matchAll" ELSE "network"]
  /\ UNCHANGED <<dbFilesVars, selectorVars, tableVars, runVars, sliceVars, collectionVars,
                 databaseVars, dbReady, pendingRequests, bridge, toPage, toWorker,
                 handling, replies>>

\* handleAPIRequest after the body and the client list have been awaited:
\* a body that does not parse gives 500, no client gives 503, otherwise
\* DB_REQUEST is posted to the first client and the reply is awaited.
HandleAPIRequest(r) ==
  /\ fetches[r].pc = "matchAll"
  /\ \/ /\ fetches' = [fetches EXCEPT ![r] = [pc |-> "responded", status |-> 500]]
        /\ UNCHANGED toPage
     \/ /\ fetches' = [fetches EXCEPT ![r] = [pc |-> "responded", status |-> 503]]
        /\ UNCHANGED toPage
     \/ /\ fetches' = [fetches EXCEPT ![r].pc = "awaitResponse"]
        /\ toPage' = Append(toPage, r)
  /\ UNCHANGED <<dbFilesVars, selectorVars, tableVars, runVars, sliceVars, collectionVars,
                 databaseVars, dbReady, pendingRequests, bridge, toWorker, handling, replies>>

\* The service worker's message listener takes DB_READY: dbReady is set,
\* handleAPIRequest is called for every held request, and the list is
\* emptied.
WorkerMessage ==
  /\ toWorker # <<>>
  /\ toWorker' = Tail(toWorker)
  /\ IF Head(toWorker).type = "DB_READY"
     THEN /\ dbReady' = TRUE
          /\ fetches' = [r \in DOMAIN fetches |->
                           IF r \in Range(pendingRequests)
                           THEN [fetches[r] EXCEPT !.pc = "matchAll"] ELSE fetches[r]]
          /\ pendingRequests' = <<>>
     ELSE UNCHANGED <<dbReady, fetches, pendingRequests>>
  /\ UNCHANGED <<dbFilesVars, selectorVars, tableVars, runVars, sliceVars, collectionVars,
                 databaseVars, bridge, toPage, handling, replies>>

\* port1.onmessage resolves the awaited reply, and handleAPIRequest
\* returns the Response.
PortMessage(r) ==
  /\ \E reply \in replies :
       /\ reply.request = r
       /\ replies' = replies \ {reply}
       /\ fetches' = [fetches EXCEPT ![r] =
                        [pc |-> "responded", status |-> responseStatus(reply)]]
  /\ UNCHANGED <<dbFilesVars, selectorVars, tableVars, runVars, sliceVars, collectionVars,
                 databaseVars, dbReady, pendingRequests, bridge, toPage, toWorker, handling>>

\* setupDatabaseBridge: initDatabase() has resolved and the message
\* listener is added.
AddMessageListener ==
  /\ bridge = "initDatabase"
  /\ bridge' = "listening"
  /\ UNCHANGED <<dbFilesVars, selectorVars, tableVars, runVars, sliceVars, collectionVars,
                 databaseVars, dbReady, pendingRequests, fetches, toPage, toWorker,
                 handling, replies>>

\* setupDatabaseBridge: navigator.serviceWorker.ready has resolved, and
\* DB_READY is posted if the registration has an active worker.
PostDBReady ==
  /\ bridge = "listening"
  /\ bridge' = "done"
  /\ \E active \in BOOLEAN :
       toWorker' = IF active THEN Append(toWorker, [type |-> "DB_READY"]) ELSE toWorker
  /\ UNCHANGED <<dbFilesVars, selectorVars, tableVars, runVars, sliceVars, collectionVars,
                 databaseVars, dbReady, pendingRequests, fetches, toPage, handling, replies>>

\* A DB_REQUEST message event is dispatched on the page: the listener, if
\* it has been added, starts handleDBRequest; an event dispatched before
\* that has no listener to take it.
PageMessage ==
  /\ toPage # <<>>
  /\ toPage' = Tail(toPage)
  /\ handling' = IF bridge \in {"listening", "done"}
                 THEN handling \cup {Head(toPage)} ELSE handling
  /\ UNCHANGED <<dbFilesVars, selectorVars, tableVars, runVars, sliceVars, collectionVars,
                 databaseVars, dbReady, pendingRequests, fetches, bridge, toWorker, replies>>

\* handleDBRequest has resolved and the listener replies through the port.
HandleDBRequest(r) ==
  /\ r \in handling
  /\ handling' = handling \ {r}
  /\ \E response \in DBResponses :
       replies' = replies \cup {[request |-> r, error |-> response.error,
                                 status |-> response.status]}
  /\ UNCHANGED <<dbFilesVars, selectorVars, tableVars, runVars, sliceVars, collectionVars,
                 databaseVars, dbReady, pendingRequests, fetches, bridge, toPage, toWorker>>

InitWorker ==
  /\ NoDBFiles
  /\ NoSelector
  /\ NoTable
  /\ NoRun
  /\ NoSlice
  /\ NoCollection
  /\ NoDatabase
  /\ dbReady = FALSE
  /\ pendingRequests = <<>>
  /\ fetches = [r \in Requests |-> [pc |-> "idle", status |-> 0]]
  /\ bridge = "initDatabase"
  /\ toPage = <<>>
  /\ toWorker = <<>>
  /\ handling = {}
  /\ replies = {}

NextWorker ==
  \/ \E r \in Requests : Fetch(r)
  \/ \E r \in Requests : HandleAPIRequest(r)
  \/ WorkerMessage
  \/ \E r \in Requests : PortMessage(r)
  \/ AddMessageListener
  \/ PostDBReady
  \/ PageMessage
  \/ \E r \in Requests : HandleDBRequest(r)

SpecWorker == InitWorker /\ [][NextWorker]_vars

\* Every step but the page's fetch is a task of an event loop, which runs
\* every task queued: the page may stop fetching, nothing else may stop.
SpecWorkerFair ==
  /\ SpecWorker
  /\ WF_vars(WorkerMessage) /\ WF_vars(AddMessageListener)
  /\ WF_vars(PostDBReady) /\ WF_vars(PageMessage)
  /\ \A r \in Requests :
       WF_vars(HandleAPIRequest(r)) /\ WF_vars(PortMessage(r)) /\ WF_vars(HandleDBRequest(r))

\* --------------------- pglite singleton (request-handler.ts, lines 428-509)

Callers == 1..MaxCallers

\* initDatabase up to its first await: a caller that finds db set returns
\* it at once; the first caller sets db to a new PGlite and starts the
\* CREATE TABLE script.
InitDatabase(c) ==
  /\ callers[c] = [call |-> "initDatabase", pc |-> "idle"]
  /\ IF db # "null"
     THEN callers' = [callers EXCEPT ![c].pc = "returned"] /\ UNCHANGED db
     ELSE callers' = [callers EXCEPT ![c].pc = "exec"] /\ db' = "PGlite"
  /\ UNCHANGED <<dbFilesVars, selectorVars, tableVars, runVars, sliceVars, collectionVars,
                 workerVars, schemaRuns, seedRuns>>

\* await db.exec(CREATE TABLE ...) resolves, and the count query is sent.
ExecResolved(c) ==
  /\ callers[c].pc = "exec"
  /\ schemaRuns' = schemaRuns + 1
  /\ callers' = [callers EXCEPT ![c].pc = "query"]
  /\ UNCHANGED <<dbFilesVars, selectorVars, tableVars, runVars, sliceVars, collectionVars,
                 workerVars, db, seedRuns>>

\* The count query resolves: users is empty until seedDatabase has filled
\* it, and an empty one is seeded.
QueryResolved(c) ==
  /\ callers[c].pc = "query"
  /\ callers' = [callers EXCEPT ![c].pc = IF seedRuns = 0 THEN "seed" ELSE "returned"]
  /\ UNCHANGED <<dbFilesVars, selectorVars, tableVars, runVars, sliceVars, collectionVars,
                 workerVars, db, schemaRuns, seedRuns>>

\* await seedDatabase(db) resolves, and initDatabase returns db.
SeedResolved(c) ==
  /\ callers[c].pc = "seed"
  /\ seedRuns' = seedRuns + 1
  /\ callers' = [callers EXCEPT ![c].pc = "returned"]
  /\ UNCHANGED <<dbFilesVars, selectorVars, tableVars, runVars, sliceVars, collectionVars,
                 workerVars, db, schemaRuns>>

\* getDatabase throws while db is null and returns db otherwise.
GetDatabase(c) ==
  /\ callers[c] = [call |-> "getDatabase", pc |-> "idle"]
  /\ callers' = [callers EXCEPT ![c].pc = IF db = "null" THEN "threw" ELSE "returned"]
  /\ UNCHANGED <<dbFilesVars, selectorVars, tableVars, runVars, sliceVars, collectionVars,
                 workerVars, db, schemaRuns, seedRuns>>

InitDatabaseCallers ==
  /\ NoDBFiles
  /\ NoSelector
  /\ NoTable
  /\ NoRun
  /\ NoSlice
  /\ NoCollection
  /\ NoWorker
  /\ db = "null"
  /\ schemaRuns = 0
  /\ seedRuns = 0
  /\ callers \in [Callers -> [call : {"initDatabase", "getDatabase"}, pc : {"idle"}]]

NextDatabase ==
  \E c \in Callers :
    \/ InitDatabase(c)
    \/ ExecResolved(c)
    \/ QueryResolved(c)
    \/ SeedResolved(c)
    \/ GetDatabase(c)

SpecDatabase == InitDatabaseCallers /\ [][NextDatabase]_vars

\* ---------------------------------------------------------------- claims

SourceKinds(inputs) == [i \in DOMAIN inputs |-> inputs[i].source.type]

\* C1: generateCrossSourceSelectorCode emits the pure memoized form
\* (createSelector) exactly when every input's source type is "slice", and
\* the hook form (useMemo) exactly when some input's source type is
\* "collection" or "selector"; the choice is decided by the source kinds
\* alone, whatever the pipeline, the output and the memoize setting.
C1_StrategyBySourceKinds ==
  code # None =>
    LET kinds == SourceKinds(Get(selector).inputs)
        text == Get(code)
    IN /\ text.decl.form \in {"createSelector", "hook"}
       /\ (text.decl.form = "createSelector") <=> (\A i \in DOMAIN kinds : kinds[i] = "slice")
       /\ (text.decl.form = "hook") <=>
            (\E i \in DOMAIN kinds : kinds[i] \in {"collection", "selector"})
       /\ ("createSelector" \in Range(text.lib)) <=> (text.decl.form = "createSelector")
       /\ ("useMemo" \in Range(text.lib)) <=> (text.decl.form = "hook")

\* C1's case: a compiled selector with a slice input beside a collection
\* input, a non-empty pipeline and an aggregation output.
C1_Witness ==
  /\ code # None
  /\ SourceKinds(Get(selector).inputs) = <<"slice", "collection">>
  /\ Get(selector).pipeline # <<>>
  /\ Get(selector).output.type = "aggregation"
  /\ Get(code).decl.form = "hook"

\* The identifier a selector is to be exported under: its name when pure,
\* use<name without the leading "select"> when hook-based.
ContractName(sel) ==
  IF \A i \in DOMAIN sel.inputs : sel.inputs[i].source.type = "slice"
  THEN sel.name
  ELSE <<"use">> \o (IF sel.name[1] = "select" THEN SubSeq(sel.name, 2, Len(sel.name))
                     ELSE sel.name)

SelectorDeps(sel) ==
  {sel.inputs[i].source.selector :
     i \in {k \in DOMAIN sel.inputs : sel.inputs[k].source.type = "selector"}}

\* The selector files of a file map, in the order of the map's keys.
EmittedSelectors(map) ==
  SelectSeq(Keys(map), LAMBDA k : k # IndexPath)

\* b holds exactly A (no selector input), B (input from A), C (input from B).
IsChainABC(b) ==
  /\ Len(b) = 3
  /\ \E i, j, k \in DOMAIN b :
       /\ b[i].name = SelA /\ SelectorDeps(b[i]) = {}
       /\ b[j].name = SelB /\ SelectorDeps(b[j]) = {SelA}
       /\ b[k].name = SelC /\ SelectorDeps(b[k]) = {SelB}

\* C4: for selectors A (no selector inputs), B (input from A) and C (input
\* from B), generateSelectorFiles emits A, B, C in that order, in the file
\* map and in the index, for every order of the input list.
C4_ChainEmittedInDependencyOrder ==
  (files # None /\ IsChainABC(Get(batch))) =>
    /\ EmittedSelectors(Get(files)) = <<SelectorPath(SelA), SelectorPath(SelB), SelectorPath(SelC)>>
    /\ [i \in 1..3 |-> Lookup(Get(files), IndexPath).exports[i].from] =
         <<<<"./">> \o SelA, <<"./">> \o SelB, <<"./">> \o SelC>>

\* The names reachable from name n through selector inputs, within batch b.
RECURSIVE ReachableFrom(_, _, _)
ReachableFrom(b, frontier, steps) ==
  IF steps = 0 THEN frontier
  ELSE ReachableFrom(b,
         frontier \cup UNION {SelectorDeps(b[i]) : i \in {k \in DOMAIN b : b[k].name \in frontier}},
         steps - 1)

OnCycle(b, i) ==
  \E d \in SelectorDeps(b[i]) :
    /\ \E k \in DOMAIN b : b[k].name = d
    /\ b[i].name \in ReachableFrom(b, {d}, Len(b))

\* C5: a batch whose selector inputs form a cycle is rejected: no file is
\* emitted for a selector on the cycle.
C5_CycleMembersNotEmitted ==
  files # None =>
    \A i \in DOMAIN Get(batch) :
      OnCycle(Get(batch), i) => ~HasKey(Get(files), SelectorPath(Get(batch)[i].name))

\* The valueFrom references of a pipeline's filters.
ValueFromRefs(pipeline) ==
  {Get(pipeline[i].predicate.valueFrom).selector :
     i \in {k \in DOMAIN pipeline :
              pipeline[k].op = "filter" /\ IsSome(pipeline[k].predicate.valueFrom)}}

\* C6: a selector with a collection input and a filter whose predicate uses
\* valueFrom compiles to a hook whose useMemo dependency list holds the
\* collection binding and the value the valueFrom reference resolves to.
C6_DepsHoldCollectionAndValueFrom ==
  LET sel == Get(selector)
  IN (/\ code # None
      /\ \E i \in DOMAIN sel.inputs : sel.inputs[i].source.type = "collection"
      /\ ValueFromRefs(sel.pipeline) # {}) =>
       /\ Get(code).decl.form = "hook"
       /\ \A i \in DOMAIN sel.inputs :
            sel.inputs[i].source.type = "collection" =>
              sel.inputs[i].name \in Range(Get(code).decl.deps)
       /\ ValueFromRefs(sel.pipeline) \subseteq Range(Get(code).decl.deps)

TransformTags == {"filter", "map", "sort", "slice", "groupBy", "unique"}
AggregationTags == {"count", "sum", "avg", "min", "max", "first", "last", "reduce"}

HasUnknownTag(sel) ==
  \/ \E i \in DOMAIN sel.pipeline : sel.pipeline[i].op \notin TransformTags
  \/ sel.output.type = "aggregation" /\ sel.output.aggregation.type \notin AggregationTags
  \/ sel.output.type = "object" /\
       \E i \in DOMAIN sel.output.fields : sel.output.fields[i].agg.type \notin AggregationTags

\* C7: a selector of a batch that carries an unknown transform or
\* aggregation tag is not emitted (selectors/<name>.ts is absent from the
\* file map), and every other selector of the batch is.
C7_UnknownTagAbortsOnlyThatSelector ==
  files # None =>
    \A i \in DOMAIN Get(batch) :
      HasKey(Get(files), SelectorPath(Get(batch)[i].name)) <=> ~HasUnknownTag(Get(batch)[i])

NamesOf(fields) == [i \in DOMAIN fields |-> fields[i].name]

\* C3: for every table descriptor, the field names emitted by
\* tableToZodSchema, by tableToTypeScript and by tableToSQL are the same
\* sequence: same fields, same order.
C3_SameFieldsInAllThree ==
  (zodText # None /\ tsText # None /\ sqlText # None) =>
    /\ NamesOf(Get(zodText).fields) = NamesOf(Get(tsText).fields)
    /\ NamesOf(Get(tsText).fields) = NamesOf(Get(sqlText).columns)

\* C3's case: all three texts generated for a table with two columns, a
\* primary key that is not a column, timestamps and soft delete.
C3_Witness ==
  /\ zodText # None /\ tsText # None /\ sqlText # None
  /\ Len(Get(table).columns) = 2
  /\ ~hasPrimaryKey(Get(table))
  /\ Get(table).timestamps /\ Get(table).softDelete
  /\ Len(Get(sqlText).columns) = 6

RunPipeline == Get(run).pipeline

\* C8: applying the emitted unique transform twice in a row (both with the
\* same field, or both without a field) yields the list that applying it
\* once yields.
C8_UniqueTwiceIsUniqueOnce ==
  run # None =>
    \A i \in 1..(Len(RunPipeline) - 1) :
      (/\ RunPipeline[i].op = "unique"
       /\ RunPipeline[i + 1] = RunPipeline[i]
       /\ Len(vals) >= i + 2) => vals[i + 2] = vals[i + 1]

\* C8's case: unique by field has run twice on three items of two keys and
\* the first run dropped an item.
C8_Witness ==
  /\ run # None
  /\ RunPipeline = <<[op |-> "unique", field |-> "k"], [op |-> "unique", field |-> "k"]>>
  /\ Len(vals) = 3
  /\ Len(vals[1]) = 3 /\ Len(vals[2]) = 2 /\ Len(vals[3]) = 2

\* The orders of v sorted by field k (ascending, or descending) in which
\* items of equal k keep the order they have in v.
StableSorts(v, direction) ==
  { [i \in 1..Len(v) |-> v[p[i]]] : p \in
      { q \in IndexPermutations(Len(v)) :
          \A i, j \in 1..Len(v) :
            i < j =>
              \/ (direction = "asc" /\ Get(v[q[i]].k) < Get(v[q[j]].k))
              \/ (direction = "desc" /\ Get(v[q[i]].k) > Get(v[q[j]].k))
              \/ (v[q[i]].k = v[q[j]].k /\ q[i] < q[j]) } }

\* C9: the emitted sort (asc or desc) followed by slice(0, n) keeps items
\* of equal sort key in their original relative order, and the emitted
\* comparator yields 0 for equal keys.
C9_SortThenSliceIsStable ==
  (/\ run # None
   /\ Len(RunPipeline) = 2
   /\ RunPipeline[1].op = "sort"
   /\ RunPipeline[2].op = "slice"
   /\ Len(vals) = 3) =>
     /\ \E sorted \in StableSorts(vals[1], RunPipeline[1].direction) :
          vals[3] = JsSlice(sorted, 0, RunPipeline[2].end)
     /\ \A i, j \in DOMAIN vals[1] :
          (i # j /\ vals[1][i].k = vals[1][j].k) =>
            Comparator(TransformNodes(RunPipelineExpr)[1], vals[1][i], vals[1][j]) = 0

\* The sum of the totals of v, a missing total counted as 0.
TotalOf(v) ==
  LET S[i \in 0..Len(v)] ==
        IF i = 0 THEN 0
        ELSE S[i - 1] + (IF v[i].total = None THEN 0 ELSE v[i].total[1])
  IN S[Len(v)]

ExpectedAvg(v) == IF Len(v) = 0 THEN Num(0) ELSE Quot(TotalOf(v), Len(v))

\* C10: the emitted avg aggregation yields 0 when the pipeline result is
\* empty and otherwise the sum of the field (a missing value counted as 0)
\* divided by the number of items, as an aggregation output and as each
\* avg field of an object output.
C10_AvgOfPipelineResult ==
  result # None =>
    LET out == Get(run).output
        piped == vals[Len(vals)]
    IN /\ (out.type = "aggregation" /\ out.aggregation.type = "avg") =>
            Get(result) = ExpectedAvg(piped)
       /\ out.type = "object" =>
            /\ Get(result).t = "object"
            /\ Len(Get(result).fields) = Len(out.fields)
            /\ \A i \in DOMAIN out.fields :
                 out.fields[i].agg.type = "avg" =>
                   Get(result).fields[i] =
                     [key |-> out.fields[i].key, value |-> ExpectedAvg(piped)]

\* C10's case: avg returned over a pipeline result that a filter left empty.
C10_Witness ==
  /\ result # None
  /\ Get(run).output.type = "aggregation"
  /\ Len(RunPipeline) = 1 /\ RunPipeline[1].op = "filter"
  /\ Len(data) = 3
  /\ vals[Len(vals)] = <<>>
  /\ Get(result) = Num(0)

\* The type-table default of a state value type, as the text of the literal.
TypeTableDefault(type) ==
  IF "lit" \in DOMAIN type
  THEN IF type.lit = "string" THEN <<"\"", "", "\"">>
       ELSE IF type.lit = "number" THEN <<"0">>
       ELSE IF type.lit = "boolean" THEN <<"false">>
       ELSE <<"[", "]">>
  ELSE IF "arrayOf" \in DOMAIN type THEN <<"[", "]">>
  ELSE IF "record" \in DOMAIN type THEN <<"{", "}">>
  ELSE <<"null">>

\* The literal of the default given to each field of StateFieldPool that
\* has one.
GivenDefaultText(name) ==
  IF name = "error" THEN <<"null">>
  ELSE IF name = "page" THEN <<"1">>
  ELSE IF name = "loading" THEN <<"true">>
  ELSE <<"[", "\"", "a", "\"", ",", "\"", "b", "\"", "]">>

\* C11: for every state field whose default is omitted, the initial value
\* generateSliceCode emits is the type-table default (string "", number 0,
\* boolean false, arrays [], record {}, nullable null); when a default is
\* given, null included, that value is emitted instead.
C11_InitialValueIsDefaultOrTypeDefault ==
  sliceText # None =>
    LET fields == Get(sliceDef).initialState
        emitted == Get(sliceText).initialStateFields
    IN /\ Len(emitted) = Len(fields)
       /\ \A k \in DOMAIN fields :
            /\ emitted[k].name = fields[k].name
            /\ emitted[k].value = IF fields[k].default = None
                                  THEN TypeTableDefault(fields[k].type)
                                  ELSE GivenDefaultText(fields[k].name)

\* A slice was compiled that has a record field without a default and a
\* field whose default is null.
C11_Witness ==
  /\ sliceText # None
  /\ \E k \in DOMAIN Get(sliceDef).initialState :
       /\ Get(sliceDef).initialState[k].default = None
       /\ "record" \in DOMAIN Get(sliceDef).initialState[k].type
       /\ Get(sliceText).initialStateFields[k].value = <<"{", "}">>
  /\ \E k \in DOMAIN Get(sliceDef).initialState :
       /\ Get(sliceDef).initialState[k].default = Some(JsonNull)
       /\ Get(sliceText).initialStateFields[k].value = <<"null">>

\* C12: a collection descriptor whose source.type is none of query,
\* electric, localStorage does not make generateCollectionCode fail: the
\* collection file is still produced, and its setup block is the minimal
\* stub createCollection({ id: name }).
C12_UnknownSourceGivesStub ==
  (collectionDef # None /\ collectionText # None
     /\ Get(collectionDef).source.type \notin {"query", "electric", "localStorage"}) =>
    /\ Get(collectionText).sourceConfig = [t |-> "stub", id |-> Get(collectionDef).name]
    /\ Get(collectionText).export = <<Get(collectionDef).name, "Collection">>
    /\ Len(Get(collectionText).liveQueryExports) =
         (IF IsSome(Get(collectionDef).liveQueries)
          THEN Len(Get(Get(collectionDef).liveQueries)) ELSE 0)

\* A collection of an unknown source kind, with two live queries, was
\* compiled.
C12_Witness ==
  /\ collectionText # None
  /\ Get(collectionDef).source.type = "indexedDB"
  /\ Get(collectionText).sourceConfig.t = "stub"
  /\ Len(Get(collectionText).liveQueryExports) = 2

\* The primary keys used here that are identifiers.
IdentifierKeys == {"id", "key"}

MalformedTable(t) == t.name \notin PascalCaseNames \/ t.primaryKey \notin IdentifierKeys

\* C13: a table descriptor with a malformed identifier (a name that is not
\* Pascal-case, or a primaryKey that is not a valid identifier) is rejected
\* before any output is produced: none of the schema, type and storage
\* texts is generated for it.
C13_MalformedTableGivesNoOutput ==
  (table # None /\ MalformedTable(Get(table))) =>
    (zodText = None /\ tsText = None /\ sqlText = None)

ColumnNames(t) == [i \in DOMAIN t.columns |-> t.columns[i].name]
SynthesizedKey(t) == IF hasPrimaryKey(t) THEN <<>> ELSE <<t.primaryKey>>
Timestamps(t) == IF t.timestamps THEN <<"createdAt", "updatedAt">> ELSE <<>>
SoftDelete(t) == IF t.softDelete THEN <<"deletedAt">> ELSE <<>>

\* The order the claim C14 states: the synthesized primary key after the
\* declared columns.
ColumnsThenKey(t) == ColumnNames(t) \o SynthesizedKey(t) \o Timestamps(t) \o SoftDelete(t)

\* The synthesized primary key before the declared columns.
KeyThenColumns(t) == SynthesizedKey(t) \o ColumnNames(t) \o Timestamps(t) \o SoftDelete(t)

\* C14, as stated: in each generated table representation the fields are
\* the declared columns, then the synthesized primary key (only when
\* primaryKey is not among the columns), then createdAt and updatedAt (only
\* when timestamps is enabled), then deletedAt (only when softDelete is
\* enabled).
C14_ColumnsThenKeyThenSystemFields ==
  /\ zodText # None => NamesOf(Get(zodText).fields) = ColumnsThenKey(Get(table))
  /\ tsText # None => NamesOf(Get(tsText).fields) = ColumnsThenKey(Get(table))
  /\ sqlText # None => NamesOf(Get(sqlText).columns) = ColumnsThenKey(Get(table))

\* C14, amended: in each generated table representation the fields are the
\* synthesized primary key (only when primaryKey is not among the columns),
\* then the declared columns, then createdAt and updatedAt (only when
\* timestamps is enabled), then deletedAt (only when softDelete is enabled).
C14_KeyThenColumnsThenSystemFields ==
  /\ zodText # None => NamesOf(Get(zodText).fields) = KeyThenColumns(Get(table))
  /\ tsText # None => NamesOf(Get(tsText).fields) = KeyThenColumns(Get(table))
  /\ sqlText # None => NamesOf(Get(sqlText).columns) = KeyThenColumns(Get(table))

\* All three texts of a table with a synthesized key, a declared column and
\* timestamps were generated, the key leading the schema text.
C14_Witness ==
  /\ zodText # None /\ tsText # None /\ sqlText # None
  /\ ~hasPrimaryKey(Get(table))
  /\ Len(Get(table).columns) >= 1
  /\ Get(table).timestamps
  /\ Get(zodText).fields[1].name = Get(table).primaryKey
  /\ Get(zodText).fields[2].name = Get(table).columns[1].name

\* C15: in both strategies the generated dependency list has exactly one
\* entry per input, in input order: for a pure selector the i-th
\* createSelector input is the accessor state.<slice>.<path> of the i-th
\* input and the i-th result-function parameter is that input's name; for a
\* hook the i-th useMemo dependency is the i-th input's bound identifier.
C15_OneDependencyPerInputInOrder ==
  code # None =>
    LET inputs == Get(selector).inputs
        decl == Get(code).decl
    IN IF decl.form = "createSelector"
       THEN /\ Len(decl.inputSelectors) = Len(inputs)
            /\ Len(decl.params) = Len(inputs)
            /\ \A i \in DOMAIN inputs :
                 /\ decl.inputSelectors[i] = [slice |-> inputs[i].source.slice,
                                              path |-> inputs[i].source.path]
                 /\ decl.params[i] = inputs[i].name
       ELSE /\ Len(decl.deps) = Len(inputs)
            /\ Len(decl.inputHooks) = Len(inputs)
            /\ \A i \in DOMAIN inputs :
                 /\ decl.inputHooks[i].bound = inputs[i].name
                 /\ decl.deps[i] = decl.inputHooks[i].bound

\* A hook was compiled whose two inputs are the same input, and its
\* dependency list names it twice.
C15_Witness ==
  /\ code # None
  /\ Get(code).decl.form = "hook"
  /\ Len(Get(selector).inputs) = 2
  /\ Get(selector).inputs[1] = Get(selector).inputs[2]
  /\ Get(code).decl.deps = <<Get(selector).inputs[1].name, Get(selector).inputs[1].name>>

\* C16: the emitted unique transform with a field returns exactly one item
\* per distinct value of that field, and that item is the last item of the
\* input list carrying the value (later entries win over earlier ones).
C16_UniqueKeepsLastPerValue ==
  run # None =>
    \A i \in DOMAIN RunPipeline :
      (RunPipeline[i].op = "unique" /\ RunPipeline[i].field # "" /\ Len(vals) >= i + 1) =>
        LET f == RunPipeline[i].field
            in == vals[i]
            out == vals[i + 1]
        IN /\ \A a, b \in DOMAIN out : out[a][f] = out[b][f] => a = b
           /\ {out[a][f] : a \in DOMAIN out} = {in[j][f] : j \in DOMAIN in}
           /\ \A a \in DOMAIN out :
                \E j \in DOMAIN in :
                  /\ in[j] = out[a]
                  /\ \A later \in DOMAIN in : later > j => in[later][f] # out[a][f]

\* unique by k has run on two different items of the same k followed by an
\* item of another k, and kept the second and the third.
C16_Witness ==
  /\ run # None
  /\ Len(RunPipeline) >= 1
  /\ RunPipeline[1] = [op |-> "unique", field |-> "k"]
  /\ Len(vals) >= 2
  /\ Len(vals[1]) = 3
  /\ vals[1][1].k = vals[1][2].k /\ vals[1][1] # vals[1][2]
  /\ vals[1][3].k # vals[1][1].k
  /\ vals[2] = <<vals[1][2], vals[1][3]>>

\* z.string() followed by the refinements of the constraints, each a call
\* appended after the closing parenthesis of the previous one.
StringCallChain(c) ==
  <<"z.string", "(", ")">> \o
  (IF IsSome(c.minLength) THEN <<".min", "(", Get(c.minLength), ")">> ELSE <<>>) \o
  (IF IsSome(c.maxLength) THEN <<".max", "(", Get(c.maxLength), ")">> ELSE <<>>) \o
  (IF IsSome(c.pattern) THEN <<".regex", "(", Get(c.pattern), ")">> ELSE <<>>)

\* C17: for a string column with a maxLength constraint (alone, or together
\* with minLength or pattern), tableToZodSchema emits a length-bounded
\* string type that is a well-formed call chain on the base string type:
\* z.string() followed by the chained refinements .min(a), .max(b),
\* .regex(...), each appended after the closing parenthesis of the previous
\* call.
C17_MaxLengthIsWellFormedChain ==
  zodText # None =>
    LET t == Get(table)
        offset == IF hasPrimaryKey(t) THEN 0 ELSE 1
    IN \A i \in DOMAIN t.columns :
         (/\ t.columns[i].type = "string"
          /\ IsSome(t.columns[i].constraints)
          /\ IsSome(Get(t.columns[i].constraints).maxLength)
          /\ ~IsSome(Get(t.columns[i].constraints).enum)) =>
           Get(zodText).fields[i + offset].type =
             StringCallChain(Get(t.columns[i].constraints)) \o
             (IF t.columns[i].nullable THEN <<".nullable", "(", ")">> ELSE <<>>)

LoadingFields == {"loading", "isLoading"}

\* The statements of all three handlers generated for one thunk.
HandlerStatements(h) == Range(h.pending) \cup Range(h.fulfilled) \cup Range(h.rejected)

\* C18: in the handlers generated for an async operation, the pending
\* handler sets every onPending field named loading or isLoading to true
\* and every onPending field named error to null, the rejected handler sets
\* every onRejected field named error from the failure payload, and no
\* handler is generated that sets a loading field back to false.
C18_PendingAndRejectedConvention ==
  sliceText # None =>
    LET thunks == OrEmpty(Get(sliceDef).thunks)
        handlers == Get(sliceText).extraReducersCode
    IN /\ Len(handlers) = Len(thunks)
       /\ \A k \in DOMAIN thunks :
            /\ \A i \in DOMAIN OrEmpty(thunks[k].onPending) :
                 LET f == OrEmpty(thunks[k].onPending)[i]
                 IN /\ f \in LoadingFields =>
                         handlers[k].pending[i] = [t |-> "assign", target |-> f, text |-> "true"]
                    /\ f = "error" =>
                         handlers[k].pending[i] = [t |-> "assign", target |-> f, text |-> "null"]
            /\ \A i \in DOMAIN OrEmpty(thunks[k].onRejected) :
                 LET f == OrEmpty(thunks[k].onRejected)[i]
                 IN f = "error" =>
                      handlers[k].rejected[i] = [t |-> "assign", target |-> f, payloadAs |-> "string"]
            /\ \A s \in HandlerStatements(handlers[k]) :
                 ~(/\ s.t = "assign"
                   /\ s.target \in LoadingFields
                   /\ "text" \in DOMAIN s
                   /\ s.text = "false")

\* A slice was compiled whose thunk lists loading and error as pending,
\* loading as fulfilled and error and loading as rejected.
C18_Witness ==
  /\ sliceText # None
  /\ IsSome(Get(sliceDef).thunks)
  /\ Get(Get(sliceDef).thunks)[1].onPending = Some(<<"loading", "error">>)
  /\ Get(Get(sliceDef).thunks)[1].onFulfilled = Some(<<"items", "loading">>)
  /\ Get(Get(sliceDef).thunks)[1].onRejected = Some(<<"error", "loading">>)
  /\ Len(Get(sliceText).extraReducersCode[1].pending) = 2
  /\ Len(Get(sliceText).extraReducersCode[1].rejected) = 2

CallNames(chain) == [i \in DOMAIN chain |-> chain[i].call]

QualifiedAccessor(container, name) ==
  <<"select", UpperFirst(container)>> \o
  (LET bare == StripSelect(name)
   IN IF Len(bare) = 0 THEN bare ELSE <<UpperFirst(bare[1])>> \o Tail(bare))

\* C20: in a container's derived selector, an input whose slice names a
\* different container is emitted as the qualified accessor
\* select<Container><Selector> (container and selector capitalised, the
\* selector's own "select" prefix removed), and an input with no slice or
\* with the same container is emitted as the selector name unchanged.
C20_QualifiedAccessorForOtherContainer ==
  sliceText # None =>
    LET selectors == OrEmpty(Get(sliceDef).selectors)
        emitted == Get(sliceText).selectorCode
    IN /\ Len(emitted) = Len(selectors)
       /\ \A k \in DOMAIN selectors :
            selectors[k].type = Some("derived") =>
              /\ emitted[k].t = "derived"
              /\ Len(emitted[k].inputSelectors) = Len(selectors[k].inputs)
              /\ \A i \in DOMAIN selectors[k].inputs :
                   LET input == selectors[k].inputs[i]
                   IN emitted[k].inputSelectors[i] =
                        IF IsSome(input.slice) /\ Get(input.slice) # Get(sliceDef).name
                        THEN QualifiedAccessor(Get(input.slice), input.selector)
                        ELSE input.selector

\* C21: evaluating the emitted sort transform never changes the list it was
\* given: after the step the input list, and every list held before it, has
\* the same items in the same order as before, and the sorted result is one
\* more list.
C21_SortLeavesInputUnchanged ==
  [][(/\ run # None
      /\ Len(vals) <= Len(RunPipeline)
      /\ RunPipeline[Len(vals)].op = "sort"
      /\ vals' # vals) =>
        /\ data' = data
        /\ Len(vals') = Len(vals) + 1
        /\ \A j \in DOMAIN vals : vals'[j] = vals[j]]_vars

\* sort by k ascending has run on three items whose first has the greater
\* k: the result is in another order and the input is still as it was.
C21_Witness ==
  /\ run # None
  /\ Len(RunPipeline) >= 1
  /\ RunPipeline[1] = [op |-> "sort", field |-> "k", direction |-> "asc"]
  /\ Len(vals) >= 2
  /\ Len(data) = 3
  /\ Get(data[1].k) > Get(data[3].k)
  /\ vals[1] = data
  /\ vals[2] # data

\* C22: for every hook selector of a compiled batch and every input of it
\* that takes another selector S of the batch, the hook identifier the
\* selector's file imports from "./index" and calls is an identifier that
\* selectors/index.ts exports from "./S", whichever form S was compiled to.
C22_ImportedHookIsExported ==
  files # None =>
    \A i \in DOMAIN Get(batch) :
      LET sel == Get(batch)[i]
          text == Lookup(Get(files), SelectorPath(sel.name))
          index == Lookup(Get(files), IndexPath)
      IN text.decl.form = "hook" =>
           \A k \in DOMAIN sel.inputs :
             (/\ sel.inputs[k].source.type = "selector"
              /\ \E j \in DOMAIN Get(batch) :
                   Get(batch)[j].name = sel.inputs[k].source.selector) =>
               /\ \E l \in DOMAIN text.imports :
                    /\ text.imports[l].from = <<"./index">>
                    /\ text.decl.inputHooks[k].hook \in Range(text.imports[l].names)
               /\ \E e \in DOMAIN index.exports :
                    /\ index.exports[e].from = <<"./">> \o sel.inputs[k].source.selector
                    /\ index.exports[e].ident = text.decl.inputHooks[k].hook

\* The identifiers an emitted expression starts its pipeline from.
RECURSIVE StartsOf(_)
StartsOf(e) ==
  IF e.t = "ident" THEN {e.name}
  ELSE IF e.t = "cond" THEN StartsOf(e.test.left) \cup StartsOf(e.yes) \cup StartsOf(e.no)
  ELSE IF e.t = "div" THEN StartsOf(e.num) \cup StartsOf(e.den)
  ELSE IF e.t = "number" THEN {}
  ELSE StartsOf(e.src)

BodyStarts(body) ==
  IF body.t = "returnObject"
  THEN UNION {StartsOf(body.fields[i].expr) : i \in DOMAIN body.fields}
  ELSE StartsOf(body.expr)

\* The identifiers the wrapper binds around the body: the parameters of the
\* result function, or the constants the hook calls are assigned to.
BoundByWrapper(decl) ==
  IF decl.form = "createSelector" THEN Range(decl.params)
  ELSE {decl.inputHooks[i].bound : i \in DOMAIN decl.inputHooks}

\* C23: the identifier the generated body's pipeline starts from is bound
\* by the wrapper (a parameter of the result function of the pure form, a
\* binding statement of the hook form), for every inputs list, the empty
\* one included.
C23_PipelineStartIsBound ==
  code # None =>
    /\ BodyStarts(Get(code).decl.body) # {}
    /\ BodyStarts(Get(code).decl.body) \subseteq BoundByWrapper(Get(code).decl)

\* The key of the file map a module specifier of db/index.ts resolves to:
\* "./x" names db/x.ts.
ResolveFromDbIndex(from) ==
  IF Len(from) > 0 /\ from[1] = "./" THEN <<"db/">> \o Tail(from) \o <<".ts">> ELSE from

\* C24: in the file map generateTanStackDBFiles returns, every collection
\* file that db/index.ts re-exports (./collections/<name>Collection) is a
\* key of the file map, also when a collection's schema names no entry of
\* tableSchemas.
C24_ReexportedCollectionFilesExist ==
  dbFiles # None =>
    /\ HasKey(Get(dbFiles), <<"db/", "index", ".ts">>)
    /\ LET index == Lookup(Get(dbFiles), <<"db/", "index", ".ts">>)
       IN \A e \in DOMAIN index.exports :
            HasKey(Get(dbFiles), ResolveFromDbIndex(index.exports[e].from))

QueryOperators ==
  {"eq", "neq", "gt", "gte", "lt", "lte", "in", "notIn", "contains", "startsWith",
   "endsWith", "isNull", "isNotNull"}

\* C25: every operator function a generated live query calls is among the
\* names imported at the top of the generated collection file, and so is
\* what mapOperator gives for each of the thirteen query operators.
C25_CalledOperatorsAreImported ==
  collectionText # None =>
    LET text == Get(collectionText)
    IN /\ \A q \in DOMAIN text.liveQueryExports :
            \A c \in DOMAIN text.liveQueryExports[q].chain :
              text.liveQueryExports[q].chain[c].call = "where" =>
                text.liveQueryExports[q].chain[c].fn \in Range(text.operatorImports)
       /\ \A operator \in QueryOperators :
            mapOperator(operator) \in Range(text.operatorImports)

NoNameTwice(names) == \A i, j \in DOMAIN names : names[i] = names[j] => i = j

\* C26: no field name appears twice in any generated representation of a
\* table (schema, type, storage definition), for every table descriptor,
\* those whose columns are named createdAt, updatedAt or deletedAt while
\* timestamps or softDelete are enabled included; the primary key field
\* appears exactly once.
C26_NoFieldNameTwice ==
  /\ zodText # None =>
       /\ NoNameTwice(NamesOf(Get(zodText).fields))
       /\ Cardinality({i \in DOMAIN Get(zodText).fields :
                         Get(zodText).fields[i].name = Get(table).primaryKey}) = 1
  /\ tsText # None =>
       /\ NoNameTwice(NamesOf(Get(tsText).fields))
       /\ Cardinality({i \in DOMAIN Get(tsText).fields :
                         Get(tsText).fields[i].name = Get(table).primaryKey}) = 1
  /\ sqlText # None =>
       /\ NoNameTwice(NamesOf(Get(sqlText).columns))
       /\ Cardinality({i \in DOMAIN Get(sqlText).columns :
                         Get(sqlText).columns[i].name = Get(table).primaryKey}) = 1

\* C27: for every slice transform whose end is given, end = 0 included, the
\* emitted slice call carries that end bound, so that the result has at
\* most max(end - start, 0) items; only a slice without end is open-ended.
C27_SliceCarriesGivenEnd ==
  run # None =>
    \A i \in DOMAIN RunPipeline :
      (RunPipeline[i].op = "slice" /\ Len(vals) >= i + 1) =>
        LET node == TransformNodes(RunPipelineExpr)[i]
            start == IF IsSome(RunPipeline[i].start) THEN Get(RunPipeline[i].start) ELSE 0
        IN /\ node.end = RunPipeline[i].end
           /\ IsSome(RunPipeline[i].end) =>
                Len(vals[i + 1]) <=
                  (IF Get(RunPipeline[i].end) - start > 0
                   THEN Get(RunPipeline[i].end) - start ELSE 0)

Intercepted == {r \in DOMAIN fetches : fetches[r].pc \notin {"idle", "network"}}

\* C29: as long as DB_READY has not been received, a request to
\* /api/sync/* that the service worker has intercepted is held in
\* pendingRequests and is not forwarded to the page: no DB_REQUEST has been
\* posted for it and it has not been answered.
C29_HeldUntilDBReady ==
  ~dbReady =>
    \A r \in Intercepted :
      /\ r \in Range(pendingRequests)
      /\ fetches[r].pc \notin {"awaitResponse", "responded"}
      /\ r \notin Range(toPage)

\* C30: under every interleaving of initDatabase and getDatabase calls, no
\* caller has obtained the database instance before the tables have been
\* created and the empty database has been seeded, and table creation and
\* seeding have run at most once.
C30_InstanceOnlyAfterInitialisation ==
  /\ \A c \in DOMAIN callers :
       callers[c].pc = "returned" => (schemaRuns >= 1 /\ seedRuns >= 1)
  /\ schemaRuns <= 1
  /\ seedRuns <= 1

====
